---- MODULE Spec2Model ----
(***************************************************************************)
(* A model of the TRPX 2.0 (Terse/Prolix) library:                         *)
(*   - Bitqueue.hpp  (Bitqueue_push_back, Bitqueue_pop),                    *)
(*   - Terse.hpp     (the three frame codecs and the Terse container),      *)
(*   - Concurrent.hpp (the global thread pool).                             *)
(* Three specifications share the module: SpecCodec (one frame through     *)
(* f_compress and prolix), SpecPool (the thread pool) and SpecTerse (a     *)
(* Terse<Concurrent> container whose frames are compressed in background). *)
(***************************************************************************)
EXTENDS Integers, Sequences, FiniteSets, TLC

VARIABLES
    \* ---- the build ----
    ndebug,         \* TRUE: compiled with -DNDEBUG, every assert(...) expands to nothing
    \* ---- SpecCodec: one frame through f_compress and prolix ----
    elem,           \* the integer type T of the input: [signed, bits]
    frame,          \* the input values (d_size = Len(frame))
    d_block,        \* Terse::d_block
    mode,           \* the Terse_mode the frame is inserted with
    cpc,            \* "input" | "compressed" | "decoded" | "aborted"
    terse_frame,    \* the byte vector f_compress returned on a little-endian host
    terse_frame_be, \* the byte vector f_compress returns for the same input on a big-endian host
    out,            \* what prolix did: [st |-> "ok" | "ub", vals |-> the values stored]
    out_signed,     \* what prolix did when it unpacked the uint8_t frame into int16_t
    enc_blocks,     \* history: the blocks f_compress wrote
    dec_blocks,     \* history: the blocks f_prolix read
    \* ---- SpecPool: c_Global_thread_pool and the threads that use it ----
    d_task_queue,   \* std::list of (task, dop, id)
    d_running_tasks,\* std::unordered_map id -> number of running tasks
    d_dop,          \* d_dop of each Concurrent instance, in units of 1 / d_cores
    tpc,            \* where each thread is: "idle" | "add" | "call" | "get" | "run"
    cur,            \* the task each thread is executing
    sub,            \* the task each thread is handing to f_add_task
    top,            \* the top_level_id each thread got from f_get_top_level_id
    tstate,         \* per task: "new" | "submitted" | "queued" | "running" | "inline" | "done"
    picked,         \* history: what the last dequeue of a worker saw and took
    \* ---- SpecTerse: one Terse<Concurrent> container of uint8_t frames ----
    d_small,        \* Terse::d_small
    d_terse_frames, \* the slots: [kind |-> "future" | "bytes", job |-> the frame's compression]
    d_concurrent,   \* the degree of parallelism of Terse::d_concurrent, 0 or 1
    jobs,           \* per compression: [state, data, at_insert, at_run]
    job_queue,      \* the container's tasks in d_task_queue
    opc,            \* the call the owning thread is in: [op, arg, i, pass]
    last_use,       \* history: the frame f_get_frame last handed to the call in progress, and whether its job had finished
    d_metadata,     \* Terse::d_metadata: one string per frame
    model_list,     \* history: the same insertions and removals on a list of [data, meta]
    \* ---- SpecContainer: one Terse container used by one thread, and its file ----
    trs,            \* the members of the Terse object
    enc_log,        \* history, per frame: what f_compress was instantiated and called with
    call,           \* history: the last member function called and how it ended
    file,           \* what write(ostream) put into the stream
    parsed,         \* the Terse object the stream constructor built from the file
    \* ---- SpecMutex: the pool with its threads followed from lock to lock ----
    d_mutex,        \* c_Global_thread_pool::d_mutex: the set of threads that own it
    \* ---- SpecBits: one Bitqueue_push_back and the Bitqueue_pop that reads its buffer ----
    bq,             \* the fields pushed, the bytes written, the values popped
    \* ---- SpecRadix: one weak block packed by f_compress_weak_block and unpacked ----
    rx,             \* the block, the 64-bit words mult and compact, the values unpacked
    \* ---- SpecStop: ~c_Global_thread_pool and the workers ----
    d_stop,         \* c_Global_thread_pool::d_stop
    d_condition,    \* the workers blocked in d_condition.wait
    dtor            \* where the destructor is: "none" | "stop" | "notify" | "join" | "done"

codecVars == <<elem, frame, d_block, mode, cpc, terse_frame, terse_frame_be, out,
               out_signed, enc_blocks, dec_blocks>>
poolVars == <<d_task_queue, d_running_tasks, d_dop, tpc, cur, sub, top, tstate, picked>>
terseVars == <<d_small, d_terse_frames, d_concurrent, jobs, job_queue, opc, last_use,
               d_metadata, model_list>>
containerVars == <<trs, enc_log, call, file, parsed>>
mutexVars == <<d_mutex>>
bitsVars == <<bq>>
radixVars == <<rx>>
stopVars == <<d_stop, d_condition, dtor>>
vars == <<ndebug, codecVars, poolVars, terseVars, containerVars, mutexVars, bitsVars, radixVars, stopVars>>

(***************************************************************************)
(* Bounds of the model.                                                    *)
(***************************************************************************)
MaxV == 3          \* longest frame
MaxBlock == 3      \* largest d_block
NWorkers == 2      \* d_max_threads: std::thread::hardware_concurrency() - 1
NOuter == 2        \* tasks the main thread submits that submit a sub-task each
NLeaf == 1         \* tasks the main thread submits through a third instance
MaxFrames == 2     \* frames inserted into the container
MaxFields == 2     \* fields pushed into a bit queue after the lead

(***************************************************************************)
(* Program constants.                                                      *)
(***************************************************************************)
WordBits == 64                 \* sizeof(d_buffer) * 8
WordBytes == 8                 \* sizeof(d_buffer)
UnsignedPrefix == 262136       \* 0b111111111111111000
SmallPrefix == 262140          \* 0b111111111111111100
PrefixBits == 18
SmallBlockClamp == 24          \* std::min(d_block, std::size_t(24))
WeakLimit == 7                 \* if (max < 7)
PrevBitsAfterWeak == 65        \* prevbits = 65
DefaultBlock == 12             \* std::size_t d_block = 12

Min(a, b) == IF a < b THEN a ELSE b
Max(a, b) == IF a < b THEN b ELSE a
Abs(a) == IF a < 0 THEN 0 - a ELSE a
\* binds the value v to the parameter of F
Let(v, F(_)) == F(v)

\* the value range of the integer type T
TMax(T) == IF T.signed THEN 2^(T.bits - 1) - 1 ELSE 2^T.bits - 1
TMin(T) == IF T.signed THEN 0 - 2^(T.bits - 1) ELSE 0
\* static_cast<T>(n) for an integer n: wrap into the range of T
CastT(T, n) ==
    LET u == n % (2^T.bits)
    IN IF T.signed /\ u >= 2^(T.bits - 1) THEN u - 2^T.bits ELSE u
SizeT == [signed |-> FALSE, bits |-> 64]
UInt8 == [signed |-> FALSE, bits |-> 8]

(***************************************************************************)
(* 64-bit words.  A word is a function 0..63 -> {0,1}, bit 0 the least     *)
(* significant.  Values that enter a word are naturals below 2^31.         *)
(***************************************************************************)
WordIdx == 0..(WordBits - 1)
ZeroWord == [i \in WordIdx |-> 0]
Bit(n, i) == IF i > 30 THEN 0 ELSE (n \div (2^i)) % 2
NatWord(n) == [i \in WordIdx |-> Bit(n, i)]
\* d_buffer |= static_cast<uint64>(u) << s
OrShl(buf, u, s) == [i \in WordIdx |-> IF i >= s /\ Bit(u, i - s) = 1 THEN 1 ELSE buf[i]]
\* w >> s (s < 64)
ShrWord(w, s) == [i \in WordIdx |-> IF i + s < WordBits THEN w[i + s] ELSE 0]
\* u >> s for a natural, s < 64
ShrNat(u, s) == IF s > 30 THEN 0 ELSE u \div (2^s)
ByteOf(w, j) ==
    w[8*j] + 2*w[8*j+1] + 4*w[8*j+2] + 8*w[8*j+3]
    + 16*w[8*j+4] + 32*w[8*j+5] + 64*w[8*j+6] + 128*w[8*j+7]
\* std::memcpy(d_data, &d_buffer, 8): the bytes of a word in the host's order
WordToBytes(w, h) ==
    [k \in 1..WordBytes |-> IF h = "little" THEN ByteOf(w, k - 1) ELSE ByteOf(w, WordBytes - k)]
\* std::memcpy(&d_buffer, d_data, 8): the word made of 8 bytes in the host's order
BytesToWord(b, h) ==
    [i \in WordIdx |->
        LET j == i \div 8
            k == IF h = "little" THEN j + 1 ELSE WordBytes - j
        IN (b[k] \div (2^(i % 8))) % 2]

(***************************************************************************)
(* Bitqueue_push_back.  q = [d_mem, d_buffer, d_buffered_bits]: d_mem are  *)
(* the bytes already copied to memory (d_data - begin = Len(d_mem)).       *)
(***************************************************************************)
NewPushBack == [d_mem |-> <<>>, d_buffer |-> ZeroWord, d_buffered_bits |-> 0]

\* the loop body of push_back(B, values) for one value; u is the value as
\* static_cast<uint64>(...) hands it over (see RawBits), B > 0
push_back_val(q, B, u, h) ==
    LET buf1 == OrShl(q.d_buffer, u, q.d_buffered_bits)
        nb1 == q.d_buffered_bits + B
    IN IF nb1 >= WordBits
       THEN [d_mem |-> q.d_mem \o WordToBytes(buf1, h),
             d_buffered_bits |-> nb1 - WordBits,
             d_buffer |-> NatWord(ShrNat(u, B - (nb1 - WordBits)))]
       ELSE [q EXCEPT !.d_buffer = buf1, !.d_buffered_bits = nb1]

\* what the loop of push_back ORs into d_buffer for val of type T:
\* signed T: make_unsigned(val) & mask;  unsigned T: val, unmasked
RawBits(T, B, val) ==
    IF T.signed THEN (val % (2^T.bits)) % (2^B) ELSE val

RECURSIVE push_back(_, _, _, _, _)
\* push_back(B, std::span<T> values)
push_back(q, B, T, values, h) ==
    IF B = 0 \/ values = <<>> THEN q
    ELSE push_back(push_back_val(q, B, RawBits(T, B, Head(values)), h), B, T, Tail(values), h)

\* operator-(p): distance in bytes from the begin of the buffer
PushBackBytes(q) == Len(q.d_mem) + ((q.d_buffered_bits + 7) \div 8)
\* flush_buffer(): memcpy of the scratch word to d_data
flush_buffer(q, h) == q.d_mem \o WordToBytes(q.d_buffer, h)

\* the number of bits pushed so far
Pushed(q) == 8 * Len(q.d_mem) + q.d_buffered_bits

\* History of the block loops.  What is recorded of a block: its number of
\* values, whether it is a masked block, whether its header gives a weak
\* maximum, the level its header carries (the maximum of a weak block, else
\* the significant bits), the carried masked width of the Unsigned mode,
\* the number of payload bits and the continuation bit that follows it
\* (NoBit if there is none).  The encoder loops keep the history in the
\* field blocks of their state s, the decoder loops in the field log of the
\* reader; nothing the loops compute depends on it.
NoBit == 0 - 1
Block(num, masked, weak, level, masked_bits, payload, cont) ==
    [num |-> num, masked |-> masked, weak |-> weak, level |-> level,
     masked_bits |-> masked_bits, payload |-> payload, cont |-> cont]

(***************************************************************************)
(* Terse: the encoder of the Signed and Unsigned modes.                    *)
(***************************************************************************)
RECURSIVE BitLen(_)
\* for ( ; setbits; setbits >>= 1, ++r);
BitLen(n) == IF n = 0 THEN 0 ELSE 1 + BitLen(n \div 2)

\* what one value ORs into setbits (types of at most 16 bits: std::abs
\* promotes to int, so neither abs nor the shift overflows)
SetBits(T, val) ==
    IF ~T.signed THEN val
    ELSE IF val = 0 - 1 THEN 1 ELSE 2 * Abs(val)

RECURSIVE MaxBitLen(_, _)
\* the bit length of the OR of the values' setbits: the largest bit length
MaxBitLen(T, values) ==
    IF values = <<>> THEN 0
    ELSE Max(BitLen(SetBits(T, Head(values))), MaxBitLen(T, Tail(values)))

\* f_most_significant_bit(std::span<T0,N>)
f_most_significant_bit(T, values) == Min(MaxBitLen(T, values), T.bits)
\* f_most_significant_bit(T0 val)
f_most_significant_bit_val(T, val) == Min(BitLen(SetBits(T, val)), T.bits)

\* PUSH_BITS(prevbits, bits): the header pushed for a block
PUSH_BITS(q, prevbits, bits, h) ==
    IF prevbits = bits THEN push_back_val(q, 1, 1, h)
    ELSE IF bits < 7 THEN push_back_val(q, 4, bits * 2, h)
    ELSE IF bits < 10 THEN push_back_val(q, 6, 14 + (bits - 7) * 16, h)
    ELSE push_back_val(q, 12, 62 + (bits - 10) * 64, h)

\* std::transform(..., buffer.begin(), val + 1): the first Len(block) slots
\* of the scratch buffer are overwritten, the others keep what they held
MaskInto(T, buffer, block) ==
    [i \in 1..Len(buffer) |->
        IF i <= Len(block) THEN CastT(T, block[i] + 1) ELSE buffer[i]]

\* one pass of the block loop of f_compress<Signed|Unsigned>;
\* s = [q, prevbits, prevmasked_bits, buffer, blocks]
CompressBlock(T, m, s, data_block, h) ==
    Let(f_most_significant_bit(T, data_block), LAMBDA significant_bits :
      IF m = "Signed" \/ significant_bits # T.bits
      THEN Let(PUSH_BITS(s.q, s.prevbits, significant_bits, h), LAMBDA hq :
           Let(push_back(hq, significant_bits, T, data_block, h), LAMBDA q1 :
             [s EXCEPT !.q = q1,
                       !.prevbits = significant_bits,
                       !.blocks = Append(@, Block(Len(data_block), FALSE, FALSE,
                                                  significant_bits, s.prevmasked_bits,
                                                  Pushed(q1) - Pushed(hq), NoBit))]))
      ELSE Let(MaskInto(T, s.buffer, data_block), LAMBDA buffer :
           Let(f_most_significant_bit(T, buffer), LAMBDA masked_bits :
           Let(PUSH_BITS(PUSH_BITS(s.q, s.prevbits, significant_bits, h),
                         s.prevmasked_bits, masked_bits, h), LAMBDA hq :
           Let(push_back(hq, masked_bits, T, buffer, h), LAMBDA q1 :
             [q |-> q1,
              prevbits |-> significant_bits,
              prevmasked_bits |-> masked_bits,
              buffer |-> buffer,
              blocks |-> Append(s.blocks, Block(Len(data_block), TRUE, FALSE,
                                                significant_bits, masked_bits,
                                                Pushed(q1) - Pushed(hq), NoBit))])))))

RECURSIVE CompressLoop(_, _, _, _, _, _, _)
\* for (from = 0; from < d_size; from += d_block)
CompressLoop(T, m, s, data, blk, from, h) ==
    IF from >= Len(data) THEN s
    ELSE CompressLoop(T, m,
            CompressBlock(T, m, s, SubSeq(data, from + 1, Min(Len(data), from + blk)), h),
            data, blk, from + blk, h)

\* f_compress<Signed|Unsigned>(data): the state of the loop when it has ended
f_compress_loop(T, m, data, blk, h) ==
    LET q0 == IF m = "Signed" THEN NewPushBack
              ELSE push_back_val(NewPushBack, PrefixBits, UnsignedPrefix, h)
    IN CompressLoop(T, m,
            [q |-> q0, prevbits |-> 0, prevmasked_bits |-> 0,
             buffer |-> [i \in 1..blk |-> 0], blocks |-> <<>>],
            data, blk, 0, h)

\* f_compress<Signed|Unsigned>(data): the bit writer when the loop has ended
f_compress_writer(T, m, data, blk, h) == f_compress_loop(T, m, data, blk, h).q

\* terse_frame.resize(bitqueue - terse_frame.data()), then ~Bitqueue_push_back
\* flushes the scratch word into the buffer the vector still owns
FinishFrame(q, h) == SubSeq(flush_buffer(q, h), 1, PushBackBytes(q))

\* the size the vector is constructed with:
\* d_size * sizeof(T) * 0.01 + d_block * sizeof(T) + 2, truncated
InitialSize(T, n, blk) == ((n * (T.bits \div 8)) \div 100) + blk * (T.bits \div 8) + 2

(***************************************************************************)
(* Bitqueue_pop.  r = [mem, pos, d_buffer, d_buffered_bits, g, h, ub]:     *)
(* mem is the container read from, pos = d_data - begin.  A byte read      *)
(* beyond the end of the container (or a byte of d_buffer the constructor  *)
(* did not set) is indeterminate: all its bits are g.  ub is set when a    *)
(* pop asks for more bits than the value type has (the assert of pop).     *)
(* log is a history of the reader: one record per block a decoder loop has *)
(* read (see Block); no operation of the reader depends on it.             *)
(***************************************************************************)
LoadWord(mem, pos, g, h) ==
    BytesToWord([k \in 1..WordBytes |->
                    IF pos + k <= Len(mem) THEN mem[pos + k] ELSE 255 * g], h)

\* Bitqueue_pop(container): memcpy of min(size, 8) bytes into d_buffer
NewPop(mem, g, h) ==
    [mem |-> mem, pos |-> 0, d_buffer |-> LoadWord(mem, 0, g, h),
     d_buffered_bits |-> WordBits, g |-> g, h |-> h, ub |-> FALSE, log |-> <<>>]

\* the number of bits of the container the reader has consumed
Consumed(r) == 8 * r.pos + WordBits - r.d_buffered_bits

\* the reader r with the block b added to its history
Logged(r, b) == [r EXCEPT !.log = Append(@, b)]

RECURSIVE BitsToNat(_, _)
BitsToNat(f, n) == IF n = 0 THEN 0 ELSE f[n - 1] * 2^(n - 1) + BitsToNat(f, n - 1)

\* the low B bits of p as a value of T: sign-extended from bit B-1 when T is signed
ExtendT(T, B, low) ==
    IF T.signed /\ low >= 2^(B - 1) THEN low - 2^B ELSE low

\* the loop body of pop(B, values) for one value of type T, B > 0
pop_val(r, B, T) ==
    IF r.ub \/ B > T.bits \/ B > 30 THEN [r |-> [r EXCEPT !.ub = TRUE], v |-> 0]
    ELSE IF B <= r.d_buffered_bits
    THEN [r |-> [r EXCEPT !.d_buffer = ShrWord(r.d_buffer, B),
                          !.d_buffered_bits = r.d_buffered_bits - B],
          v |-> ExtendT(T, B, BitsToNat(r.d_buffer, B))]
    ELSE Let(LoadWord(r.mem, r.pos + WordBytes, r.g, r.h), LAMBDA w2 :
           [r |-> [r EXCEPT !.pos = r.pos + WordBytes,
                            !.d_buffer = ShrWord(w2, B - r.d_buffered_bits),
                            !.d_buffered_bits = WordBits + r.d_buffered_bits - B],
            v |-> ExtendT(T, B, BitsToNat(
                    [i \in 0..(B - 1) |->
                       IF r.d_buffer[i] = 1
                          \/ (i >= r.d_buffered_bits /\ w2[i - r.d_buffered_bits] = 1)
                       THEN 1 ELSE 0], B))])

\* pop<B,T>() and pop<T>(B): a single value; B = 0 returns 0 and reads nothing
pop(r, B, T) == IF B = 0 THEN [r |-> r, v |-> 0] ELSE pop_val(r, B, T)

RECURSIVE pop_span(_, _, _, _)
\* pop(B, std::span<T> values) with n values: [r, vals]
pop_span(r, B, T, n) ==
    IF n = 0 THEN [r |-> r, vals |-> <<>>]
    ELSE Let(pop(r, B, T), LAMBDA a :
         Let(pop_span(a.r, B, T, n - 1), LAMBDA rest :
           [r |-> rest.r, vals |-> <<a.v>> \o rest.vals]))

\* the template parameter N that prolix() picks for a block size
PROLIX_N(blk) == IF blk \in (8..16) \cup {20, 24, 32} THEN blk ELSE 0

\* POP(bits, begin, num): with N = 0, or bits + (num != d_block ? 9 : 0) > 8,
\* the run-time pop of num values; else pop<bits> of N = d_block = num values
POP(r, bits, T, num, blk) ==
    IF PROLIX_N(blk) # 0 /\ num = blk /\ bits <= 8
    THEN pop_span(r, bits, T, PROLIX_N(blk))
    ELSE pop_span(r, bits, T, num)

\* BITS(bits): the header of a block of the Signed and Unsigned modes
BITS(r, bits) ==
    Let(pop(r, 1, UInt8), LAMBDA a :
      IF a.v # 0 THEN [r |-> a.r, bits |-> bits]
      ELSE Let(pop(a.r, 3, UInt8), LAMBDA b :
        IF b.v # 7 THEN [r |-> b.r, bits |-> b.v]
        ELSE Let(pop(b.r, 2, UInt8), LAMBDA c :
          IF 7 + c.v # 10 THEN [r |-> c.r, bits |-> 7 + c.v]
          ELSE Let(pop(c.r, 6, UInt8), LAMBDA d :
            [r |-> d.r, bits |-> 10 + d.v]))))

\* --begin[i] for every value of a block
Decrement(T, vals) == [i \in 1..Len(vals) |-> CastT(T, vals[i] - 1)]

RECURSIVE SignedLoop(_, _, _, _, _, _, _)
\* the block loop of f_prolix_signed: the values stored from `from` on
SignedLoop(r, significant_bits, T, n, blk, from, acc) ==
    IF from >= n THEN [r |-> r, vals |-> acc]
    ELSE Let(BITS(r, significant_bits), LAMBDA hd :
         Let(POP(hd.r, hd.bits, T, Min(n, from + blk) - from, blk), LAMBDA body :
           SignedLoop(Logged(body.r, Block(Min(n, from + blk) - from, FALSE, FALSE, hd.bits,
                                           0, Consumed(body.r) - Consumed(hd.r), NoBit)),
                      hd.bits, T, n, blk, from + blk, acc \o body.vals)))

\* f_prolix_signed<N>(begin, frame)
f_prolix_signed(mem, T, n, blk, g, h) ==
    SignedLoop(NewPop(mem, g, h), 0, T, n, blk, 0, <<>>)

RECURSIVE UnsignedLoop(_, _, _, _, _, _, _, _, _)
\* the block loop of f_prolix_unsigned
UnsignedLoop(r, significant_bits, masked_bits, T, prolix_bits, n, blk, from, acc) ==
    IF from >= n THEN [r |-> r, vals |-> acc]
    ELSE Let(BITS(r, significant_bits), LAMBDA hd :
      IF hd.bits # prolix_bits
      THEN Let(POP(hd.r, hd.bits, T, Min(n, from + blk) - from, blk), LAMBDA body :
             UnsignedLoop(Logged(body.r, Block(Min(n, from + blk) - from, FALSE, FALSE,
                                               hd.bits, masked_bits,
                                               Consumed(body.r) - Consumed(hd.r), NoBit)),
                          hd.bits, masked_bits, T, prolix_bits,
                          n, blk, from + blk, acc \o body.vals))
      ELSE Let(BITS(hd.r, masked_bits), LAMBDA mh :
           Let(POP(mh.r, mh.bits, T, Min(n, from + blk) - from, blk), LAMBDA body :
             UnsignedLoop(Logged(body.r, Block(Min(n, from + blk) - from, TRUE, FALSE,
                                               hd.bits, mh.bits,
                                               Consumed(body.r) - Consumed(mh.r), NoBit)),
                          hd.bits, mh.bits, T, prolix_bits,
                          n, blk, from + blk, acc \o Decrement(T, body.vals)))))

\* the reader of f_prolix_unsigned / f_prolix_small_unsigned once the line
\* assert((bitqueue.pop<18, std::size_t>() == prefix)) has run: with NDEBUG
\* the assert and the pop inside it are compiled out
AfterPrefixAssert(mem, g, h, nd) ==
    IF nd THEN NewPop(mem, g, h) ELSE pop(NewPop(mem, g, h), PrefixBits, SizeT).r

\* f_prolix_unsigned<N>(begin, frame)
f_prolix_unsigned(mem, T, prolix_bits, n, blk, g, h, nd) ==
    UnsignedLoop(AfterPrefixAssert(mem, g, h, nd), 0, 0, T, prolix_bits, n, blk, 0, <<>>)

(***************************************************************************)
(* Terse: the encoder of the Small_unsigned mode.                          *)
(***************************************************************************)
RECURSIVE SeqMax(_)
\* std::ranges::max of a non-empty block
SeqMax(values) ==
    IF Len(values) = 1 THEN values[1] ELSE Max(Head(values), SeqMax(Tail(values)))

RECURSIVE Compact(_, _)
\* compact += mult * data_block[i]; mult *= (maxval + 1)
Compact(values, radix) ==
    IF values = <<>> THEN 0 ELSE Head(values) + radix * Compact(Tail(values), radix)

\* the header f_compress_weak_block pushes
WeakHeader(q, maxval, previous_maxval, h) ==
    IF previous_maxval = 0 /\ maxval = 0 THEN push_back_val(q, 1, 1, h)
    ELSE IF previous_maxval = maxval THEN push_back_val(q, 2, 3, h)
    ELSE IF previous_maxval + 1 = maxval THEN push_back_val(q, 2, 2, h)
    ELSE IF maxval # 6 /\ previous_maxval - 1 = maxval THEN push_back_val(q, 2, 1, h)
    ELSE IF previous_maxval = 6 /\ maxval = 4 THEN push_back_val(q, 2, 2, h)
    ELSE push_back_val(q, 5, maxval * 4, h)

\* f_compress_weak_block(data_block, bitqueue, maxval, previous_maxval):
\* the writer afterwards (previous_maxval becomes maxval)
f_compress_weak_block(q, data_block, maxval, previous_maxval, h) ==
    Let(WeakHeader(q, maxval, previous_maxval, h),
        LAMBDA q1 :
          CASE maxval = 0 -> q1
            [] maxval = 1 -> push_back(q1, 1, SizeT, data_block, h)
            [] maxval = 3 -> push_back(q1, 2, SizeT, data_block, h)
            [] OTHER ->
                 IF BitLen((maxval + 1)^Len(data_block) - 1) = 0 THEN q1
                 ELSE push_back_val(q1, BitLen((maxval + 1)^Len(data_block) - 1),
                                    Compact(data_block, maxval + 1), h))

\* the header f_compress_strong_block pushes
StrongHeader(q, significant_bits, previous_significant_bits, h) ==
    IF previous_significant_bits = significant_bits THEN push_back_val(q, 2, 3, h)
    ELSE IF previous_significant_bits + 1 = significant_bits THEN push_back_val(q, 2, 2, h)
    ELSE IF previous_significant_bits - 1 = significant_bits THEN push_back_val(q, 2, 1, h)
    ELSE IF significant_bits < 10
    THEN push_back_val(q, 8, 28 + (significant_bits - 3) * 32, h)
    ELSE IF significant_bits < 17
    THEN push_back_val(q, 11, 252 + (significant_bits - 10) * 256, h)
    ELSE push_back_val(q, 17, 2044 + (significant_bits - 17) * 2048, h)

\* f_compress_strong_block(data_block, bitqueue, significant_bits,
\* previous_significant_bits): the writer afterwards
f_compress_strong_block(q, data_block, significant_bits, previous_significant_bits, h) ==
    push_back(StrongHeader(q, significant_bits, previous_significant_bits, h),
              significant_bits, SizeT, data_block, h)

\* the state s of a Small_unsigned loop after a weak or a strong block
\* was pushed: the writer and the history of blocks
AfterWeak(s, data_block, maxval, masked, h) ==
    Let(f_compress_weak_block(s.q, data_block, maxval, s.prevmax, h), LAMBDA q1 :
      [s EXCEPT !.q = q1,
                !.blocks = Append(@, Block(Len(data_block), masked, TRUE, maxval, 0,
                     Pushed(q1) - Pushed(WeakHeader(s.q, maxval, s.prevmax, h)), NoBit))])

AfterStrong(s, data_block, significant_bits, masked, h) ==
    Let(f_compress_strong_block(s.q, data_block, significant_bits, s.prevbits, h), LAMBDA q1 :
      [s EXCEPT !.q = q1,
                !.blocks = Append(@, Block(Len(data_block), masked, FALSE, significant_bits, 0,
                     Pushed(q1) - Pushed(StrongHeader(s.q, significant_bits, s.prevbits, h)),
                     NoBit))])

\* the header f_compress_masked opens a masked run with
MaskedHeader(q, T, h) ==
    IF T.bits < 10 THEN push_back_val(q, 8, 28 + (T.bits - 3) * 32, h)
    ELSE IF T.bits < 17 THEN push_back_val(q, 11, 252 + (T.bits - 10) * 256, h)
    ELSE push_back_val(q, 17, 2044 + (T.bits - 17) * 2048, h)

RECURSIVE MaskedLoop(_, _, _, _, _)
\* the loop of f_compress_masked; s = [q, prevmax, prevbits, from]
MaskedLoop(T, s, data, block, h) ==
    IF s.from >= Len(data) THEN s
    ELSE Let(Min(Len(data), s.from + block), LAMBDA to :
         Let([i \in 1..(to - s.from) |-> CastT(T, data[s.from + i] + 1)], LAMBDA unmasked :
         Let(SeqMax(unmasked), LAMBDA max :
         Let(IF max < WeakLimit
             THEN [AfterWeak(s, unmasked, max, TRUE, h) EXCEPT !.prevmax = max]
             ELSE [AfterStrong(s, unmasked, f_most_significant_bit_val(T, max), TRUE, h)
                     EXCEPT !.prevbits = f_most_significant_bit_val(T, max)],
             LAMBDA s1 :
               IF to # Len(data)
               THEN IF SeqMax(SubSeq(data, to + 1, Min(Len(data), to + block))) # TMax(T)
                    THEN [s1 EXCEPT !.q = push_back_val(s1.q, 1, 0, h),        \* break
                                    !.blocks[Len(s1.blocks)].cont = 0]
                    ELSE MaskedLoop(T, [s1 EXCEPT !.q = push_back_val(s1.q, 1, 1, h),
                                                  !.blocks[Len(s1.blocks)].cont = 1,
                                                  !.from = s.from + block],
                                    data, block, h)
               ELSE [s1 EXCEPT !.from = s.from + block]))))

\* f_compress_masked(data, terse_frame, from, bitqueue, max, prevmax, prevbits)
f_compress_masked(T, s, data, block, h) ==
    MaskedLoop(T, [s EXCEPT !.q = MaskedHeader(s.q, T, h),
                            !.prevmax = TMax(T),
                            !.prevbits = T.bits + 1],
               data, block, h)

RECURSIVE SmallLoop(_, _, _, _, _)
\* the block loop of f_compress<Small_unsigned>; s = [q, prevmax, prevbits, from]
SmallLoop(T, s, data, block, h) ==
    IF s.from >= Len(data) THEN s
    ELSE Let(SubSeq(data, s.from + 1, Min(Len(data), s.from + block)), LAMBDA data_block :
         Let(SeqMax(data_block), LAMBDA max :
         Let(IF max < WeakLimit
             THEN [AfterWeak(s, data_block, max, FALSE, h)
                     EXCEPT !.prevmax = max,
                            !.prevbits = PrevBitsAfterWeak]
             ELSE IF f_most_significant_bit_val(T, max) = T.bits
             THEN f_compress_masked(T, s, data, block, h)
             ELSE [AfterStrong(s, data_block, f_most_significant_bit_val(T, max), FALSE, h)
                     EXCEPT !.prevbits = f_most_significant_bit_val(T, max),
                            !.prevmax = TMax(T) \div 2],
             LAMBDA s1 :
               SmallLoop(T, [s1 EXCEPT !.from = s1.from + block], data, block, h))))

\* f_compress<Small_unsigned>(data): the state of the loop when it has ended
f_compress_small_loop(T, data, blk, h) ==
    SmallLoop(T, [q |-> push_back_val(NewPushBack, PrefixBits, SmallPrefix, h),
                  prevmax |-> 0, prevbits |-> 0, from |-> 0, blocks |-> <<>>],
              data, Min(blk, SmallBlockClamp), h)

\* f_compress<Small_unsigned>(data): the bit writer when the loop has ended
f_compress_small_writer(T, data, blk, h) == f_compress_small_loop(T, data, blk, h).q

\* the blocks f_compress<MODE>(data) has written, in order
f_compress_blocks(T, m, data, blk, h) ==
    IF m = "Small_unsigned" THEN f_compress_small_loop(T, data, blk, h).blocks
    ELSE f_compress_loop(T, m, data, blk, h).blocks

\* f_compress<MODE>(data): the bytes of the compressed frame
f_compress(T, m, data, blk, h) ==
    IF m = "Small_unsigned"
    THEN FinishFrame(f_compress_small_writer(T, data, blk, h), h)
    ELSE FinishFrame(f_compress_writer(T, m, data, blk, h), h)

(***************************************************************************)
(* Terse: the decoder of the Small_unsigned mode.  s = [r, max, bits] with *)
(* max of the value type T and bits a uint8_t.                             *)
(***************************************************************************)
\* f_get_max(bitqueue, max, bits)
f_get_max(s, T) ==
    Let(pop(s.r, 1, UInt8), LAMBDA a :
      IF a.v = 1 /\ s.max = 0 THEN [s EXCEPT !.r = a.r]
      ELSE Let(pop(a.r, 1, UInt8), LAMBDA b :
        CASE 2 * a.v + b.v = 3 -> [s EXCEPT !.r = b.r]
          [] 2 * a.v + b.v = 2 ->
               [r |-> b.r, max |-> CastT(T, s.max - 1), bits |-> CastT(UInt8, s.bits - 1)]
          [] 2 * a.v + b.v = 1 ->
               [r |-> b.r,
                max |-> CastT(T, IF s.max = 6 THEN s.max - 2 ELSE s.max + 1),
                bits |-> CastT(UInt8, s.bits + 1)]
          [] OTHER ->
               Let(pop(b.r, 3, UInt8), LAMBDA c :
                 IF c.v # 7 THEN [r |-> c.r, max |-> c.v, bits |-> c.v]
                 ELSE Let(pop(c.r, 3, UInt8), LAMBDA d :
                   IF 3 + d.v # 10
                   THEN [r |-> d.r, max |-> TMax(T) \div 2, bits |-> 3 + d.v]
                   ELSE Let(pop(d.r, 3, UInt8), LAMBDA e :
                     IF 10 + e.v # 17
                     THEN [r |-> e.r, max |-> TMax(T) \div 2, bits |-> 10 + e.v]
                     ELSE Let(pop(e.r, 6, UInt8), LAMBDA f :
                       [r |-> f.r, max |-> TMax(T) \div 2, bits |-> 17 + f.v]))))))

RECURSIVE Digits(_, _, _)
\* data_block[i] = val % radix; val /= radix, for n values
Digits(val, radix, n) ==
    IF n = 0 THEN <<>> ELSE <<val % radix>> \o Digits(val \div radix, radix, n - 1)

\* a radix-packed block: mult = pow(radix, block) - 1 with the block size of
\* the container, one pop of f_most_significant_bit(mult) bits, then the
\* digits of the num values of this block
PopRadix(r, radix, block, num) ==
    IF radix <= 0       \* max + 1 of a signed max below zero: val % 0, pow of a negative
    THEN [r |-> [r EXCEPT !.ub = TRUE], vals |-> [i \in 1..num |-> 0]]
    ELSE Let(pop(r, BitLen(radix^block - 1), SizeT), LAMBDA a :
           [r |-> a.r, vals |-> Digits(a.v, radix, num)])

RECURSIVE SmallMaskedLoop(_, _, _, _, _, _, _)
\* the loop of f_prolix_small_unsigned_masked: [s, from, vals]
SmallMaskedLoop(s, T, n, blk, block, from, acc) ==
    IF from >= n THEN [s |-> s, from |-> from, vals |-> acc]
    ELSE Let(f_get_max(s, T), LAMBDA s1 :
         Let(IF s1.max >= WeakLimit
             THEN POP(s1.r, s1.bits, T, Min(n, from + block) - from, blk)
             ELSE PopRadix(s1.r, s1.max + 1, block, Min(n, from + block) - from),
             LAMBDA body :
         Let(pop(body.r, 1, UInt8), LAMBDA masked :
         Let([r |-> Logged(masked.r, Block(Min(n, from + block) - from, TRUE,
                                           s1.max < WeakLimit,
                                           IF s1.max < WeakLimit THEN s1.max ELSE s1.bits,
                                           0, Consumed(body.r) - Consumed(s1.r), masked.v)),
              max |-> IF s1.max >= WeakLimit THEN SeqMax(body.vals) ELSE s1.max,
              bits |-> s1.bits],
             LAMBDA s3 :
               IF masked.v = 0
               THEN [s |-> s3, from |-> from, vals |-> acc \o Decrement(T, body.vals)]
               ELSE SmallMaskedLoop(s3, T, n, blk, block, from + block,
                                    acc \o Decrement(T, body.vals))))))

\* f_prolix_small_unsigned_masked<N>(bitqueue, begin, from, max, bits)
f_prolix_small_unsigned_masked(s, T, n, blk, block, from, acc) ==
    SmallMaskedLoop([s EXCEPT !.bits = 0], T, n, blk, block, from, acc)

RECURSIVE SmallUnsignedLoop(_, _, _, _, _, _, _, _)
\* the block loop of f_prolix_small_unsigned
SmallUnsignedLoop(s, T, prolix_bits, n, blk, block, from, acc) ==
    IF from >= n THEN [r |-> s.r, vals |-> acc]
    ELSE Let(f_get_max(s, T), LAMBDA s1 :
      IF s1.max >= WeakLimit /\ s1.max # 7 /\ s1.bits = prolix_bits
      THEN Let(f_prolix_small_unsigned_masked(s1, T, n, blk, block, from, acc), LAMBDA run :
             SmallUnsignedLoop(run.s, T, prolix_bits, n, blk, block,
                               run.from + block, run.vals))
      ELSE Let(IF s1.max \in {0, 1, 3, 7}
               THEN POP(s1.r, BitLen(s1.max), T, Min(n, from + block) - from, blk)
               ELSE IF s1.max < WeakLimit
               THEN PopRadix(s1.r, s1.max + 1, block, Min(n, from + block) - from)
               ELSE POP(s1.r, s1.bits, T, Min(n, from + block) - from, blk),
               LAMBDA body :
                 SmallUnsignedLoop(
                     [s1 EXCEPT !.r = Logged(body.r,
                          Block(Min(n, from + block) - from, FALSE, s1.max < WeakLimit,
                                IF s1.max < WeakLimit THEN s1.max ELSE s1.bits,
                                0, Consumed(body.r) - Consumed(s1.r), NoBit))],
                     T, prolix_bits, n, blk, block, from + block, acc \o body.vals)))

\* f_prolix_small_unsigned<N>(begin, frame), integral value type
f_prolix_small_unsigned(mem, T, prolix_bits, n, blk, g, h, nd) ==
    SmallUnsignedLoop([r |-> AfterPrefixAssert(mem, g, h, nd), max |-> 0, bits |-> 0],
                      T, prolix_bits, n, blk, Min(blk, SmallBlockClamp), 0, <<>>)

(***************************************************************************)
(* Terse: f_prolix, the dispatch on the first 18 bits of the frame.        *)
(***************************************************************************)
\* bitqueue.pop<18, std::size_t>() of a reader constructed over the frame
FrameFlag(mem, g, h) == pop(NewPop(mem, g, h), PrefixBits, SizeT).v

\* f_prolix<N>(begin, frame): the reader when the chosen decoder returns and
\* the values it stored
f_prolix(mem, T, prolix_bits, n, blk, g, h, nd) ==
    LET flag == FrameFlag(mem, g, h)
    IN IF flag = SmallPrefix
       THEN f_prolix_small_unsigned(mem, T, prolix_bits, n, blk, g, h, nd)
       ELSE IF flag = UnsignedPrefix
       THEN f_prolix_unsigned(mem, T, prolix_bits, n, blk, g, h, nd)
       ELSE f_prolix_signed(mem, T, n, blk, g, h)

\* whether assert(container.size() % 8 == 0) of a Bitqueue constructor aborts
CtorAborts(size, nd) == ~nd /\ size % WordBytes # 0

(***************************************************************************)
(* SpecCodec: one frame of an empty container is compressed and unpacked.  *)
(***************************************************************************)
Int8 == [signed |-> TRUE, bits |-> 8]
UInt16 == [signed |-> FALSE, bits |-> 16]
Int16 == [signed |-> TRUE, bits |-> 16]
ElemTypes == {UInt8, Int8, UInt16}

\* the values frames are drawn from: zero, weak and strong values, values
\* of full width, the most negative and the most positive value of the type
Samples(T) ==
    IF T = UInt8 THEN {0, 5, 15, 63, 200, 255}
    ELSE IF T = Int8 THEN {0 - 128, 0 - 1, 0, 7, 31}
    ELSE {0, 600, 1500, 20000, 65535}

Frames(T) == UNION {[1..n -> Samples(T)] : n \in 1..MaxV}
Modes == {"Signed", "Unsigned", "Small_unsigned"}

\* insert / f_compress: if (std::is_signed_v<T>) mode = Terse_mode::Signed
InsertMode(T, m) == IF T.signed THEN "Signed" ELSE m

\* the size f_compress constructs terse_frame with, per mode
FrameInitialSize(T, m, n, blk) ==
    IF m = "Small_unsigned" THEN InitialSize(T, n, Min(blk, SmallBlockClamp))
    ELSE InitialSize(T, n, blk)

\* what the caller of prolix is left with: the values stored, unless a pop
\* was asked for more bits than its value type has
Outcome(res) == [st |-> IF res.r.ub THEN "ub" ELSE "ok", vals |-> res.vals]
NoOutput == [st |-> "none", vals |-> <<>>]

(***************************************************************************)
(* Concurrent.hpp: the global thread pool.  The main thread owns three     *)
(* Concurrent instances with the ids f_get_unique_id handed out: through   *)
(* the first it submits outer tasks, each of which submits one sub-task    *)
(* through the second and waits for its future; through the third it       *)
(* submits leaf tasks.                                                     *)
(***************************************************************************)
MainThread == 0
Workers == 1..NWorkers
Threads == {MainThread} \cup Workers
d_max_threads == NWorkers
\* Deg_of_parallelism::d_cores: hardware_concurrency()
d_cores == NWorkers + 1

IdOuter == 0
IdSub == 1
IdLeaf == 2
Ids == {IdOuter, IdSub, IdLeaf}
NoId == 0 - 1          \* std::nullopt

OuterTasks == {<<"outer", k>> : k \in 1..NOuter}
SubTasks == {<<"sub", k>> : k \in 1..NOuter}
LeafTasks == {<<"leaf", k>> : k \in 1..NLeaf}
Tasks == OuterTasks \cup SubTasks \cup LeafTasks
NoTask == <<"none", 0>>
\* the sub-task an outer task hands to background()
SubOf(task) == <<"sub", task[2]>>
\* d_unique_id of the instance a task is submitted through
IdOf(task) ==
    IF task[1] = "outer" THEN IdOuter ELSE IF task[1] = "sub" THEN IdSub ELSE IdLeaf

\* a background() that never runs a task in the calling thread on account of
\* its degree of parallelism
RunsInCallerNever(dop) == FALSE

\* Concurrent::background: d_dop == 0.0, the first operand of the test that
\* makes background() run the task itself
RunsInCaller(dop) == dop = 0

\* Deg_of_parallelism::cores(): std::clamp(unsigned(d_dop * d_cores), 1u, d_cores)
cores(dop) == Max(1, Min(dop, d_cores))

\* d_running_tasks[id] as operator[] reads it: 0 for an id it has to insert
RunningCount(running, id) == IF id \in DOMAIN running THEN running[id] ELSE 0

RECURSIVE SetMin(_)
SetMin(S) ==
    LET x == CHOOSE y \in S : TRUE
    IN IF S = {x} THEN x ELSE Min(x, SetMin(S \ {x}))

\* f_get_top_level_id(): the smallest id among running and queued tasks
f_get_top_level_id(running, queue) ==
    LET ids == DOMAIN running \cup {queue[i].id : i \in 1..Len(queue)}
    IN IF ids = {} THEN NoId ELSE SetMin(ids)

\* the test of f_add_task that makes it return false
Rejects(top_level_id, id, running) ==
    /\ top_level_id # NoId
    /\ id # top_level_id
    /\ Cardinality(DOMAIN running) = d_max_threads

\* the scan with an off-by-one test: d_running_tasks[id] <= dop.cores()
BelowBudgetOffByOne(running, entry) == RunningCount(running, entry.id) <= cores(entry.dop)

\* the test of the scan in f_worker_thread: d_running_tasks[id] < dop.cores()
BelowBudget(running, entry) == RunningCount(running, entry.id) < cores(entry.dop)

\* the position of the first queued task the scan takes, 0 when it takes none
FirstEligible(queue, running) ==
    LET ok == {i \in 1..Len(queue) : BelowBudget(running, queue[i])}
    IN IF ok = {} THEN 0 ELSE SetMin(ok)

RemoveAt(queue, i) == SubSeq(queue, 1, i - 1) \o SubSeq(queue, i + 1, Len(queue))

\* ++d_running_tasks[id]
Increment(running, id) ==
    [j \in DOMAIN running \cup {id} |-> IF j = id THEN RunningCount(running, id) + 1
                                        ELSE running[j]]
\* if (d_running_tasks[id] == 1) erase(id); else --d_running_tasks[id];
Decrement1(running, id) ==
    IF RunningCount(running, id) = 1
    THEN [j \in DOMAIN running \ {id} |-> running[j]]
    ELSE [j \in DOMAIN running \cup {id} |-> IF j = id THEN RunningCount(running, id) - 1
                                             ELSE running[j]]

\* the number of workers that took a task of this id from the queue and
\* have not finished it
ExecutingCount(id) ==
    Cardinality({w \in Workers : cur[w] # NoTask /\ IdOf(cur[w]) = id})

NoPick == [queue |-> <<>>, exec |-> [id \in Ids |-> 0], idx |-> 0]

PoolIdle ==
    /\ d_task_queue = <<>>
    /\ d_running_tasks = [id \in {} |-> 0]
    /\ tpc = [t \in Threads |-> "idle"]
    /\ cur = [t \in Threads |-> NoTask]
    /\ sub = [t \in Threads |-> NoTask]
    /\ top = [t \in Threads |-> NoId]
    /\ tstate = [task \in Tasks |-> "new"]
    /\ picked = NoPick

CodecIdle ==
    /\ elem = UInt8
    /\ frame = <<>>
    /\ d_block = 1
    /\ mode = "Signed"
    /\ cpc = "idle"
    /\ terse_frame = <<>>
    /\ terse_frame_be = <<>>
    /\ out = NoOutput
    /\ out_signed = NoOutput
    /\ enc_blocks = <<>>
    /\ dec_blocks = <<>>

(***************************************************************************)
(* Terse<Concurrent>: a container of uint8_t frames, its owning thread and *)
(* the workers of the pool that run its compression tasks.  The container  *)
(* submits through its one Concurrent instance, so all its tasks carry one *)
(* id; the instance is replaced by dop(new_dop) only after every task has  *)
(* been joined.                                                            *)
(***************************************************************************)
TerseId == 0
JobIds == 1..MaxFrames
\* the frames handed to insert, one after the other: std::vector<uint8_t>
\* of d_size 2 with weak, strong and full-width values
TerseData == << <<0, 5>>, <<63, 255>>, <<15, 200>>, <<255, 0>> >>
FrameData(j) == TerseData[((j - 1) % Len(TerseData)) + 1]
\* the strings handed to metadata(pos, data), as bytes: "m"
MetaStrings == {<<109>>}
OwnerOps == {"at", "terse_size", "file_size", "write", "shrink_to_fit", "erase", "dop", "prolix"}

ErasedJob == [state |-> "erased", data |-> <<>>, at_insert |-> FALSE, at_run |-> FALSE]
NoJob == [state |-> "none", data |-> <<>>, at_insert |-> FALSE, at_run |-> FALSE]
OwnerIdle == [op |-> "idle", arg |-> 0, i |-> 0, pass |-> 0]
NoUse == [job |-> 0, future |-> FALSE, finished |-> TRUE]

TerseIdle ==
    /\ d_small = FALSE
    /\ d_terse_frames = <<>>
    /\ d_concurrent = 1
    /\ jobs = [j \in JobIds |-> NoJob]
    /\ job_queue = <<>>
    /\ opc = OwnerIdle
    /\ last_use = NoUse
    /\ d_metadata = <<>>
    /\ model_list = <<>>

\* f_compress(mode, data) with Terse_mode::Default: the case that reads d_small
DefaultMode(small) == IF small THEN "Small_unsigned" ELSE "Unsigned"

\* the bytes the compression of a frame returned
JobBytes(job) == f_compress(UInt8, DefaultMode(job.at_run), job.data, DefaultBlock, "little")

\* the bytes background() returns for the same call when d_dop == 0.0: the task
\* is executed inside insert
SequentialBytes(job) ==
    f_compress(UInt8, DefaultMode(job.at_insert), job.data, DefaultBlock, "little")

\* the container's part of d_running_tasks
TerseRunning ==
    LET n == Cardinality({j \in JobIds : jobs[j].state = "running"})
    IN IF n = 0 THEN [id \in {} |-> 0] ELSE [id \in {TerseId} |-> n]

\* the compressions the container has started so far, plus one
NextJob == Cardinality({j \in JobIds : jobs[j].state # "none"}) + 1

InsertAt(frames, pos, slot) ==
    SubSeq(frames, 1, pos - 1) \o <<slot>> \o SubSeq(frames, pos, Len(frames))

\* a call of get() that does not wait for the shared state of the task
FutureReadyNoWait(job) == TRUE

\* std::future::get() returns: the shared state of the task is ready
FutureReady(job) == job.state = "done"

\* f_get_frame(index) can return: the slot holds bytes, or get() returns
CanGetFrame(frames, index) ==
    frames[index].kind = "bytes" \/ FutureReady(jobs[frames[index].job])

\* f_get_frame(index): a slot holding a future is assigned the bytes
f_get_frame(frames, index) == [frames EXCEPT ![index].kind = "bytes"]

\* how often a call walks over all frames with f_get_frame
Passes(op) == IF op \in {"file_size", "write"} THEN 3 ELSE 1

(***************************************************************************)
(* Terse used by one thread (compression inside insert), and its file.     *)
(* t = [d_terse_frames, d_signed, d_small, d_block, d_size, d_prolix_bits, *)
(* d_metadata]; the frames are byte vectors, the strings are bytes.        *)
(***************************************************************************)
\* the members of a default-constructed Terse; bool d_signed has no
\* initializer, s is the value it happens to hold
EmptyTerse(s) ==
    [d_terse_frames |-> <<>>, d_signed |-> s, d_small |-> FALSE, d_block |-> DefaultBlock,
     d_size |-> 0, d_prolix_bits |-> 0, d_metadata |-> <<>>]

\* call = [op, ret, arg, T, mode, small, before, valid]: the last call if it
\* was block_size or insert, "ok" or "abort", its argument (block or pos),
\* and for insert the value type, the mode asked for, d_small and
\* number_of_frames() at the call and whether the asserts of
\* f_validate_insert held
NoCall == [op |-> "none", ret |-> "ok", arg |-> 0, T |-> UInt8, mode |-> "Default",
           small |-> FALSE, before |-> 0, valid |-> TRUE]
NoFile == [header |-> <<>>, payload |-> <<>>]
NoParsed == [st |-> "none", legacy |-> FALSE, bare |-> FALSE, t |-> EmptyTerse(FALSE)]

\* the arguments of block_size(block)
BlockSizes == {1, 6}
\* the modes insert can be called with
InsertModes == Modes \cup {"Default"}
\* the frames handed to insert, per value type: uint8_t frames of 1 and of
\* 2 values, an int8_t and a uint16_t frame of 1 value
ContainerFrames(T) ==
    IF T = UInt8 THEN {<<5>>, <<255, 0>>}
    ELSE IF T = Int8 THEN {<<0 - 1>>}
    ELSE {<<600>>}

NumberOfFrames(t) == Len(t.d_terse_frames)

\* block_size(block) that assigns whether or not the container holds frames
SetBlockAlways(t, block) == [t EXCEPT !.d_block = block]

\* block_size(block): d_block = number_of_frames() == 0 ? block : d_block
SetBlock(t, block) ==
    [t EXCEPT !.d_block = IF NumberOfFrames(t) = 0 THEN block ELSE t.d_block]

\* the asserts of f_validate_insert<T>(pos, size, mode) on V and S
SameSizeAndSign(t, T, size) ==
    NumberOfFrames(t) # 0 => (t.d_size = size /\ t.d_signed = T.signed)

\* f_validate_insert<T>(pos, size, mode): the members afterwards
f_validate_insert(t, T, size) ==
    [t EXCEPT !.d_prolix_bits = Max(t.d_prolix_bits, T.bits),
              !.d_size = IF NumberOfFrames(t) = 0 THEN size ELSE t.d_size,
              !.d_signed = IF NumberOfFrames(t) = 0 THEN T.signed ELSE t.d_signed]

\* all asserts of f_validate_insert, mode being the mode after insert has
\* replaced it by Signed for a signed T
ValidInsert(t, T, size, m) ==
    /\ SameSizeAndSign(t, T, size)
    /\ f_validate_insert(t, T, size).d_signed => m = "Signed"

\* the f_compress<MODE> that f_compress(mode, data) dispatches to
CompressMode(T, m, small_flag) ==
    IF InsertMode(T, m) = "Default" THEN DefaultMode(small_flag) ELSE InsertMode(T, m)

\* the d_size values f_compress reads from the iterator: values read beyond
\* the data handed to insert are indeterminate (all pad)
Supplied(data, n, pad) == [i \in 1..n |-> IF i <= Len(data) THEN data[i] ELSE pad]
Padding(T, data, n) == IF Len(data) >= n THEN {0} ELSE {0, TMax(T)}

\* the calls f_compress<MODE>(data) that insert can make
CompressCalls ==
    UNION {[T : {T}, mode : IF T.signed THEN {"Signed"} ELSE Modes,
            block : BlockSizes \cup {DefaultBlock},
            data : {Supplied(d, Len(e), pad) :
                      d \in ContainerFrames(T), pad \in {0, TMax(T)},
                      e \in UNION {ContainerFrames(U) : U \in ElemTypes}}]
           : T \in ElemTypes}
\* what each of them returns
CompressTable ==
    [c \in CompressCalls |-> f_compress(c.T, c.mode, c.data, c.block, "little")]
\* the same function, enumerated once by the comparison
Compressed == IF CompressTable = CompressTable THEN CompressTable ELSE CompressTable

(***************************************************************************)
(* The Terse file.  The header is the attribute list of the <Terse .../>    *)
(* element, each value the text operator<< writes; texts and strings are   *)
(* sequences of character codes.  The payload follows the header in the    *)
(* stream: the metadata strings, then the frames.                          *)
(***************************************************************************)
RECURSIVE ToDecimal(_)
\* ostream << n for an unsigned integer
ToDecimal(n) == IF n < 10 THEN <<48 + n>> ELSE ToDecimal(n \div 10) \o <<48 + (n % 10)>>

RECURSIVE JoinSizes(_)
\* for (i + 1 != size) ostream << v[i] << " "; ostream << v.back()
JoinSizes(ns) ==
    IF Len(ns) = 1 THEN ToDecimal(ns[1])
    ELSE ToDecimal(Head(ns)) \o <<32>> \o JoinSizes(Tail(ns))

RECURSIVE ReadSizes(_, _, _)
\* while (str >> val): the unsigned values of a text, val the digits read
\* of the value in progress (-1: none)
ReadSizes(text, val, acc) ==
    IF text = <<>> THEN (IF val >= 0 THEN Append(acc, val) ELSE acc)
    ELSE IF Head(text) \in 48..57
    THEN ReadSizes(Tail(text), (IF val < 0 THEN 0 ELSE val) * 10 + (Head(text) - 48), acc)
    ELSE IF Head(text) = 32
    THEN ReadSizes(Tail(text), 0 - 1, IF val >= 0 THEN Append(acc, val) ELSE acc)
    ELSE (IF val >= 0 THEN Append(acc, val) ELSE acc)

\* std::stoul(text) of an attribute that holds one number
stoul(text) == ReadSizes(text, 0 - 1, <<>>)[1]

RECURSIVE Concat(_)
Concat(seqs) == IF seqs = <<>> THEN <<>> ELSE Head(seqs) \o Concat(Tail(seqs))

Sizes(seqs) == [i \in DOMAIN seqs |-> Len(seqs[i])]

\* terse_size(): the sum of the sizes of the frames
terse_size(t) == Len(Concat(t.d_terse_frames))

\* f_write_metadata(ostream): the header (d_dim is empty) and the strings
f_write_metadata(t) ==
    [header |-> [prolix_bits |-> ToDecimal(t.d_prolix_bits),
                 signed |-> ToDecimal(IF t.d_signed THEN 1 ELSE 0),
                 block |-> ToDecimal(t.d_block),
                 number_of_values |-> ToDecimal(t.d_size),
                 number_of_frames |-> ToDecimal(NumberOfFrames(t)),
                 memory_sizes_of_frames |-> JoinSizes(Sizes(t.d_terse_frames)),
                 memory_size |-> ToDecimal(terse_size(t)),
                 metadata_string_sizes |->
                     IF t.d_metadata = <<>> THEN <<>> ELSE JoinSizes(Sizes(t.d_metadata))],
     payload |-> Concat(t.d_metadata)]

\* write(ostream) of a container that holds frames
write(t) ==
    [f_write_metadata(t) EXCEPT !.payload = @ \o Concat(t.d_terse_frames)]

\* XML_element::attribute(name) of a header: a file written before
\* memory_sizes_of_frames existed has no such attribute
attribute(header, name, legacy) ==
    IF legacy /\ name = "memory_sizes_of_frames" THEN <<>> ELSE header[name]

\* the content of a std::string whose object representation was overwritten
Indeterminate == <<0 - 1>>

RECURSIVE ReadChunks(_, _)
\* istream.read of consecutive chunks of the given sizes
ReadChunks(stream, sizes) ==
    IF sizes = <<>> THEN <<>>
    ELSE <<SubSeq(stream, 1, Head(sizes))>>
         \o ReadChunks(SubSeq(stream, Head(sizes) + 1, Len(stream)), Tail(sizes))

\* d_metadata.push_back(std::string(val, ' ')); istream.read((char*)&d_metadata.back(), val):
\* the bytes are stored into the string object, not into its characters.
\* With no bytes read the string is empty; else the characters are the bytes
\* read where the object begins with its characters (layout "inline"),
\* and indeterminate elsewhere
ReadString(bytes, layout) ==
    IF bytes = <<>> THEN <<>> ELSE IF layout = "inline" THEN bytes ELSE Indeterminate

\* Bitqueue_pop::skip(B)
skip(r, B) ==
    IF B <= r.d_buffered_bits THEN [r EXCEPT !.d_buffered_bits = r.d_buffered_bits - B]
    ELSE [r EXCEPT !.pos = r.pos + WordBytes + (B \div WordBits),
                   !.d_buffered_bits = WordBits - (B % WordBits)]

\* Bitqueue_pop::operator-(p), p an offset from the begin of the container
PopDistance(r, p) == r.pos + ((r.d_buffered_bits + 7) \div 8) - p

RECURSIVE WalkBlocks(_, _, _, _, _)
\* the loop over the blocks of one frame in f_fill_terse_frames
WalkBlocks(r, significant_bits, n, blk, from) ==
    IF from >= n THEN r
    ELSE Let(BITS(r, significant_bits), LAMBDA hd :
           WalkBlocks(skip(hd.r, hd.bits * Min(blk, n - from)), hd.bits, n, blk, from + blk))

RECURSIVE WalkSizes(_, _, _, _, _, _, _, _)
\* terse_sizes of f_fill_terse_frames: every frame is walked with a reader
\* constructed on f_get_frame(0), and measured from terse_begin
WalkSizes(blob, frames, n, blk, g, h, terse_begin, acc) ==
    IF Len(acc) = frames THEN acc
    ELSE Let(PopDistance(WalkBlocks(NewPop(blob, g, h), 0, n, blk, 0), terse_begin),
             LAMBDA size :
               WalkSizes(blob, frames, n, blk, g, h, terse_begin + size, Append(acc, size)))

RECURSIVE Starts(_, _)
\* data_start of every frame
Starts(sizes, from) ==
    IF sizes = <<>> THEN <<>> ELSE <<from>> \o Starts(Tail(sizes), from + Head(sizes))

\* f_fill_terse_frames(istream, number_of_bytes): [st, frames].  A negative
\* size is a huge std::size_t and resize throws; a memcpy that reads beyond
\* frame 0 is undefined; frame 0 is resized, with zeros if it grows
f_fill_terse_frames(blob, frames, n, blk, g, h, nd) ==
    IF CtorAborts(Len(blob), nd) THEN [st |-> "abort", frames |-> <<>>]
    ELSE Let(WalkSizes(blob, frames, n, blk, g, h, 0, <<>>), LAMBDA terse_sizes :
         Let(Starts(terse_sizes, 0), LAMBDA data_start :
           IF \E k \in 1..frames : terse_sizes[k] < 0
           THEN [st |-> "throws", frames |-> <<>>]
           ELSE IF \E k \in 2..frames : data_start[k] + terse_sizes[k] > Len(blob)
           THEN [st |-> "ub", frames |-> <<>>]
           ELSE [st |-> "ok",
                 frames |-> [k \in 1..frames |->
                    IF k = 1
                    THEN [i \in 1..terse_sizes[1] |-> IF i <= Len(blob) THEN blob[i] ELSE 0]
                    ELSE SubSeq(blob, data_start[k] + 1, data_start[k] + terse_sizes[k])]]))

\* Terse(istream): what the constructor builds from the header and the
\* payload of a file: [st, legacy, t]
StreamCtor(f, legacy, layout, g, nd) ==
    Let(ReadSizes(attribute(f.header, "metadata_string_sizes", legacy), 0 - 1, <<>>),
        LAMBDA string_sizes :
    Let(SubSeq(f.payload, Len(Concat(ReadChunks(f.payload, string_sizes))) + 1, Len(f.payload)),
        LAMBDA rest :
    Let([d_terse_frames |-> <<>>,
         d_signed |-> stoul(attribute(f.header, "signed", legacy)) # 0,
         d_small |-> FALSE,
         d_block |-> stoul(attribute(f.header, "block", legacy)),
         d_size |-> stoul(attribute(f.header, "number_of_values", legacy)),
         d_prolix_bits |-> stoul(attribute(f.header, "prolix_bits", legacy)),
         d_metadata |-> [i \in DOMAIN string_sizes |->
                           ReadString(ReadChunks(f.payload, string_sizes)[i], layout)]],
        LAMBDA t :
      IF attribute(f.header, "memory_sizes_of_frames", legacy) = <<>>
      THEN Let(f_fill_terse_frames(SubSeq(rest, 1, stoul(attribute(f.header, "memory_size", legacy))),
                                   stoul(attribute(f.header, "number_of_frames", legacy)),
                                   t.d_size, t.d_block, g, "little", nd),
               LAMBDA filled :
                 [st |-> filled.st, legacy |-> legacy,
                  t |-> [t EXCEPT !.d_terse_frames = filled.frames]])
      ELSE [st |-> "ok", legacy |-> legacy,
            t |-> [t EXCEPT !.d_terse_frames =
                     ReadChunks(rest, ReadSizes(attribute(f.header, "memory_sizes_of_frames",
                                                          legacy), 0 - 1, <<>>))]])))

\* std::mutex d_mutex: not owned
MutexIdle == d_mutex = {}

\* no bit queue, no weak block
NoBits == [pc |-> "none"]
BitsIdle == bq = NoBits
NoRadix == [pc |-> "none"]
RadixIdle == rx = NoRadix
\* std::atomic<bool> d_stop {false}; no worker waits; the pool is alive
StopIdle ==
    /\ d_stop = FALSE
    /\ d_condition = {}
    /\ dtor = "none"

ContainerIdle ==
    /\ trs = EmptyTerse(FALSE)
    /\ enc_log = <<>>
    /\ call = NoCall
    /\ file = NoFile
    /\ parsed = NoParsed

(***************************************************************************)
(* SpecCodec, the specification.                                           *)
(***************************************************************************)
InitCodec ==
    /\ ndebug \in BOOLEAN
    /\ elem \in ElemTypes
    /\ frame \in Frames(elem)
    /\ d_block \in 1..MaxBlock
    /\ mode \in Modes
    /\ cpc = "input"
    /\ terse_frame = <<>>
    /\ terse_frame_be = <<>>
    /\ out = NoOutput
    /\ out_signed = NoOutput
    /\ enc_blocks = <<>>
    /\ dec_blocks = <<>>
    /\ PoolIdle
    /\ d_dop = [id \in Ids |-> 1]
    /\ TerseIdle
    /\ ContainerIdle
    /\ MutexIdle
    /\ BitsIdle
    /\ RadixIdle
    /\ StopIdle

\* Terse::insert of the first frame: f_compress(mode, data)
Compress ==
    /\ cpc = "input"
    /\ LET m == InsertMode(elem, mode)
       IN IF CtorAborts(FrameInitialSize(elem, m, Len(frame), d_block), ndebug)
          THEN /\ cpc' = "aborted"
               /\ UNCHANGED <<terse_frame, terse_frame_be, enc_blocks>>
          ELSE /\ cpc' = "compressed"
               /\ terse_frame' = f_compress(elem, m, frame, d_block, "little")
               /\ terse_frame_be' = f_compress(elem, m, frame, d_block, "big")
               /\ enc_blocks' = f_compress_blocks(elem, m, frame, d_block, "little")
    /\ UNCHANGED <<ndebug, elem, frame, d_block, mode, out, out_signed, dec_blocks, poolVars, terseVars, containerVars, mutexVars, bitsVars, radixVars, stopVars>>

\* Terse::prolix(begin, 0) into a buffer of the type the frame was inserted
\* with, and, for a frame of uint8_t, prolix(begin, 0) into a buffer of
\* int16_t (d_prolix_bits stays 8); bytes read beyond the frame are all-zero
\* or all-one
Prolix ==
    /\ cpc = "compressed"
    /\ IF CtorAborts(Len(terse_frame), ndebug)
       THEN /\ cpc' = "aborted"
            /\ UNCHANGED <<out, out_signed, dec_blocks>>
       ELSE \E g \in {0, 1} :
              /\ cpc' = "decoded"
              /\ out' = Outcome(f_prolix(terse_frame, elem, elem.bits, Len(frame), d_block,
                                         g, "little", ndebug))
              /\ dec_blocks' = f_prolix(terse_frame, elem, elem.bits, Len(frame), d_block,
                                        g, "little", ndebug).r.log
              /\ out_signed' = IF elem = UInt8
                               THEN Outcome(f_prolix(terse_frame, Int16, elem.bits, Len(frame),
                                                     d_block, g, "little", ndebug))
                               ELSE NoOutput
    /\ UNCHANGED <<ndebug, elem, frame, d_block, mode, terse_frame, terse_frame_be, enc_blocks, poolVars, terseVars, containerVars, mutexVars, bitsVars, radixVars, stopVars>>

NextCodec == Compress \/ Prolix

SpecCodec == InitCodec /\ [][NextCodec]_vars

(***************************************************************************)
(* Properties of SpecCodec.                                                *)
(***************************************************************************)
\* prolix returned and stored exactly the frame that was inserted
RoundTrip == out = [st |-> "ok", vals |-> frame]

\* C1: a frame compressed in Signed mode and unpacked by prolix into the
\* same integer type comes back as exactly the original sequence
C1_SignedRoundTrip ==
    (cpc = "decoded" /\ InsertMode(elem, mode) = "Signed") => RoundTrip

\* C2: a frame of unsigned integers compressed in Unsigned mode and unpacked
\* by prolix into the same type comes back as exactly the original sequence
C2_UnsignedRoundTrip ==
    (cpc = "decoded" /\ InsertMode(elem, mode) = "Unsigned") => RoundTrip

\* C3: a frame of unsigned integers compressed in Small_unsigned mode and
\* unpacked by prolix into the same type comes back as exactly the original
C3_SmallUnsignedRoundTrip ==
    (cpc = "decoded" /\ InsertMode(elem, mode) = "Small_unsigned") => RoundTrip

\* C4: a frame compressed in Signed mode (of at least 18 bits) never begins
\* with the 18 bits of the Unsigned or of the Small_unsigned sentinel
C4_SignedFrameHasNoSentinel ==
    (cpc = "compressed" /\ InsertMode(elem, mode) = "Signed"
       /\ Len(terse_frame) * 8 >= PrefixBits)
    => FrameFlag(terse_frame, 0, "little") \notin {UnsignedPrefix, SmallPrefix}

\* C5: the byte vector f_compress returns has a length divisible by 8
C5_FrameLengthMultipleOf8 ==
    cpc = "compressed" => Len(terse_frame) % WordBytes = 0

\* C7: a big-endian host compresses an input to the same bytes as a
\* little-endian host
C7_SameBytesOnBothHosts ==
    cpc = "compressed" => terse_frame_be = terse_frame

(***************************************************************************)
(* SpecPool, the specification.                                            *)
(***************************************************************************)
InitPool ==
    /\ ndebug = TRUE
    /\ CodecIdle
    /\ PoolIdle
    /\ d_dop \in [Ids -> {0, 1, 2, d_cores}]
    /\ TerseIdle
    /\ ContainerIdle
    /\ MutexIdle
    /\ BitsIdle
    /\ RadixIdle
    /\ StopIdle

\* where a thread goes on when background() returns the future
AfterBackground(t) == IF cur[t] = NoTask THEN "idle" ELSE "get"

\* Concurrent::background: the main thread submits its next outer or its next
\* leaf task, an outer task submits its sub-task.  With d_dop == 0.0
\* f_add_task is not called and (*task)() runs the task in the submitting
\* thread; else the step ends after f_get_top_level_id() of f_add_task.  (An
\* instance with d_dop == 0 takes no id from the generator; the ids of the
\* other instances keep their order.)
Background(t, task) ==
    /\ \/ t = MainThread /\ tpc[t] = "idle" /\ task \in OuterTasks \cup LeafTasks
          /\ \A k \in 1..(task[2] - 1) : tstate[<<task[1], k>>] # "new"
       \/ tpc[t] = "call" /\ task = SubOf(cur[t])
    /\ tstate[task] = "new"
    /\ IF RunsInCaller(d_dop[IdOf(task)])
       THEN /\ IF task \in OuterTasks
               THEN /\ cur' = [cur EXCEPT ![t] = task]
                    /\ tpc' = [tpc EXCEPT ![t] = "call"]
                    /\ tstate' = [tstate EXCEPT ![task] = "inline"]
               ELSE /\ tstate' = [tstate EXCEPT ![task] = "done"]
                    /\ tpc' = [tpc EXCEPT ![t] = AfterBackground(t)]
                    /\ UNCHANGED cur
            /\ UNCHANGED <<sub, top>>
       ELSE /\ sub' = [sub EXCEPT ![t] = task]
            /\ top' = [top EXCEPT ![t] = f_get_top_level_id(d_running_tasks, d_task_queue)]
            /\ tpc' = [tpc EXCEPT ![t] = "add"]
            /\ tstate' = [tstate EXCEPT ![task] = "submitted"]
            /\ UNCHANGED cur
    /\ UNCHANGED <<d_task_queue, d_running_tasks, d_dop, picked, ndebug, codecVars, terseVars, containerVars, mutexVars, bitsVars, radixVars, stopVars>>

\* the rest of f_add_task and of background: the task is queued, or it is
\* rejected and (*task)() runs it in the submitting thread
f_add_task(t) ==
    /\ tpc[t] = "add"
    /\ IF Rejects(top[t], IdOf(sub[t]), d_running_tasks)
       THEN IF sub[t] \in OuterTasks
            THEN /\ cur' = [cur EXCEPT ![t] = sub[t]]
                 /\ tpc' = [tpc EXCEPT ![t] = "call"]
                 /\ tstate' = [tstate EXCEPT ![sub[t]] = "inline"]
                 /\ UNCHANGED d_task_queue
            ELSE /\ tstate' = [tstate EXCEPT ![sub[t]] = "done"]
                 /\ tpc' = [tpc EXCEPT ![t] = AfterBackground(t)]
                 /\ UNCHANGED <<cur, d_task_queue>>
       ELSE /\ d_task_queue' = Append(d_task_queue,
                   [task |-> sub[t], dop |-> d_dop[IdOf(sub[t])], id |-> IdOf(sub[t])])
            /\ tstate' = [tstate EXCEPT ![sub[t]] = "queued"]
            /\ tpc' = [tpc EXCEPT ![t] = AfterBackground(t)]
            /\ UNCHANGED cur
    /\ sub' = [sub EXCEPT ![t] = NoTask]
    /\ UNCHANGED <<d_running_tasks, d_dop, top, picked, ndebug, codecVars, terseVars, containerVars, mutexVars, bitsVars, radixVars, stopVars>>

\* f_worker_thread, the locked scan: the first queued task whose id is below
\* its budget is taken out of the queue and counted as running
Dequeue(w) ==
    /\ w \in Workers
    /\ tpc[w] = "idle"
    /\ \A v \in Workers : v < w => tpc[v] # "idle"   \* idle workers are interchangeable
    /\ FirstEligible(d_task_queue, d_running_tasks) # 0
    /\ LET i == FirstEligible(d_task_queue, d_running_tasks)
       IN /\ d_task_queue' = RemoveAt(d_task_queue, i)
          /\ d_running_tasks' = Increment(d_running_tasks, d_task_queue[i].id)
          /\ cur' = [cur EXCEPT ![w] = d_task_queue[i].task]
          /\ tpc' = [tpc EXCEPT ![w] = IF d_task_queue[i].task \in OuterTasks
                                       THEN "call" ELSE "run"]
          /\ tstate' = [tstate EXCEPT ![d_task_queue[i].task] = "running"]
          /\ picked' = [queue |-> d_task_queue,
                        exec |-> [id \in Ids |-> ExecutingCount(id)],
                        idx |-> i]
    /\ UNCHANGED <<d_dop, sub, top, ndebug, codecVars, terseVars, containerVars, mutexVars, bitsVars, radixVars, stopVars>>

\* future.get() of an outer task on the future of its sub-task
FutureGet(t) ==
    /\ tpc[t] = "get"
    /\ tstate[SubOf(cur[t])] = "done"
    /\ IF t \in Workers
       THEN /\ tpc' = [tpc EXCEPT ![t] = "run"]
            /\ UNCHANGED <<cur, tstate>>
       ELSE /\ tpc' = [tpc EXCEPT ![t] = "idle"]
            /\ cur' = [cur EXCEPT ![t] = NoTask]
            /\ tstate' = [tstate EXCEPT ![cur[t]] = "done"]
    /\ UNCHANGED <<d_task_queue, d_running_tasks, d_dop, sub, top, picked, ndebug, codecVars, terseVars, containerVars, mutexVars, bitsVars, radixVars, stopVars>>

\* f_worker_thread: task() returns, the locked bookkeeping after it
Finish(w) ==
    /\ w \in Workers
    /\ tpc[w] = "run"
    /\ d_running_tasks' = Decrement1(d_running_tasks, IdOf(cur[w]))
    /\ tstate' = [tstate EXCEPT ![cur[w]] = "done"]
    /\ cur' = [cur EXCEPT ![w] = NoTask]
    /\ tpc' = [tpc EXCEPT ![w] = "idle"]
    /\ UNCHANGED <<d_task_queue, d_dop, sub, top, picked, ndebug, codecVars, terseVars, containerVars, mutexVars, bitsVars, radixVars, stopVars>>

NextPool ==
    \/ \E t \in Threads, task \in Tasks : Background(t, task)
    \/ \E t \in Threads : f_add_task(t)
    \/ \E w \in Workers : Dequeue(w)
    \/ \E t \in Threads : FutureGet(t)
    \/ \E w \in Workers : Finish(w)

\* every thread that can take a step eventually takes one
SpecPool == InitPool /\ [][NextPool]_vars /\ WF_vars(NextPool)

(***************************************************************************)
(* Properties of SpecPool.                                                 *)
(***************************************************************************)
\* C8: every task that was handed to background() eventually completes,
\* also when outer tasks running on workers wait for their sub-tasks
C8_EverySubmittedTaskCompletes ==
    \A task \in Tasks : (tstate[task] # "new") ~> (tstate[task] = "done")

\* what the last dequeue took was the first queued task whose id had fewer
\* tasks executing than its budget
PickedFirstBelowBudget ==
    picked.idx # 0 =>
      /\ picked.exec[picked.queue[picked.idx].id] < cores(picked.queue[picked.idx].dop)
      /\ \A j \in 1..(picked.idx - 1) :
            picked.exec[picked.queue[j].id] >= cores(picked.queue[j].dop)

\* C9: for every id, the workers executing tasks of that id are never more
\* than the cores of the id's degree of parallelism, and a worker always
\* takes the first queued task whose id is below its budget
C9_PerIdCoreBudget ==
    /\ \A id \in Ids : ExecutingCount(id) <= cores(d_dop[id])
    /\ PickedFirstBelowBudget

\* an id is at its budget and a worker took a task queued behind a task of
\* an id at its budget
C9_Witness ==
    /\ picked.idx > 1
    /\ \E id \in Ids : ExecutingCount(id) = cores(d_dop[id])

\* a thread is between the call of background() for the task and its return
InBackground(task) ==
    \E t \in Threads : cur[t] = task /\ tpc[t] \in {"call", "add", "get"}

\* C19: a task handed to background() of an instance with degree of
\* parallelism 0 is never in the queue of the pool and is never taken by a
\* worker, and it has completed (its future is ready) unless the calling
\* thread is still inside background() executing it.
C19_DopZeroRunsInCaller ==
    \A task \in Tasks :
       d_dop[IdOf(task)] = 0 =>
          /\ \A i \in DOMAIN d_task_queue : d_task_queue[i].task # task
          /\ \A w \in Workers : cur[w] # task
          /\ tstate[task] \in {"new", "inline", "done"}
          /\ tstate[task] = "inline" => InBackground(task)

\* background() of an instance with degree of parallelism 0 has returned
\* while the pool holds queued and running tasks of other instances
C19_Witness ==
    /\ \E task \in Tasks : d_dop[IdOf(task)] = 0 /\ tstate[task] = "done"
    /\ d_task_queue # <<>>
    /\ \E w \in Workers : cur[w] # NoTask

(***************************************************************************)
(* SpecMutex, the specification: the threads of SpecPool followed from one *)
(* lock of d_mutex to the next.  tpc tells where a thread is:              *)
(*   "top_lock"  f_get_top_level_id, before its lock_guard                 *)
(*   "top"       f_get_top_level_id, in the loops over both structures     *)
(*   "size"      f_add_task, evaluating d_running_tasks.size()             *)
(*   "add_lock"  f_add_task, before its lock_guard                         *)
(*   "emplace"   f_add_task, in d_task_queue.emplace_back                  *)
(*   "scan"      f_worker_thread, in the scan of the queue                 *)
(*   "fin_lock"  f_worker_thread, task() returned, before the lock_guard   *)
(*   "fin"       f_worker_thread, in the bookkeeping of d_running_tasks    *)
(*   "rt_lock", "rt"  running_tasks, before the lock_guard and counting    *)
(***************************************************************************)
InitMutex ==
    /\ ndebug = TRUE
    /\ CodecIdle
    /\ PoolIdle
    /\ d_dop \in [Ids -> {1, d_cores}]
    /\ TerseIdle
    /\ ContainerIdle
    /\ MutexIdle
    /\ BitsIdle
    /\ RadixIdle
    /\ StopIdle

\* the locations at which a thread reads d_task_queue, and at which it
\* modifies it
ReadsQueue(t) == tpc[t] \in {"top", "scan", "rt"}
WritesQueue(t) == tpc[t] \in {"emplace", "scan"}
\* the locations at which a thread reads d_running_tasks, and at which it
\* modifies it (operator[], ++, --, erase)
ReadsRunning(t) == tpc[t] \in {"top", "size", "scan", "fin", "rt"}
WritesRunning(t) == tpc[t] \in {"scan", "fin"}

\* std::lock_guard / std::unique_lock on d_mutex: constructor and destructor
Lock(t) == d_mutex = {} /\ d_mutex' = {t}
Unlock(t) == d_mutex = {t} /\ d_mutex' = {}

\* what d_running_tasks.size() yields: the number of ids in the map, or any
\* number when another thread modifies the map during the call (a data race)
SizeRead(t) ==
    IF \E u \in Threads \ {t} : WritesRunning(u)
    THEN 0..Cardinality(Ids)
    ELSE {Cardinality(DOMAIN d_running_tasks)}

\* Concurrent::background with d_dop > 0, up to the call of f_add_task
background_enter(t, task) ==
    /\ \/ t = MainThread /\ tpc[t] = "idle" /\ task \in OuterTasks \cup LeafTasks
          /\ \A k \in 1..(task[2] - 1) : tstate[<<task[1], k>>] # "new"
       \/ tpc[t] = "call" /\ task = SubOf(cur[t])
    /\ tstate[task] = "new"
    /\ sub' = [sub EXCEPT ![t] = task]
    /\ tpc' = [tpc EXCEPT ![t] = "top_lock"]
    /\ tstate' = [tstate EXCEPT ![task] = "submitted"]
    /\ UNCHANGED <<d_task_queue, d_running_tasks, d_dop, cur, top, picked, d_mutex,
                   ndebug, codecVars, terseVars, containerVars, bitsVars, radixVars, stopVars>>

\* f_get_top_level_id: std::lock_guard<std::mutex> lock(d_mutex)
top_level_lock(t) ==
    /\ tpc[t] = "top_lock"
    /\ Lock(t)
    /\ tpc' = [tpc EXCEPT ![t] = "top"]
    /\ UNCHANGED <<d_task_queue, d_running_tasks, d_dop, cur, sub, top, tstate, picked,
                   ndebug, codecVars, terseVars, containerVars, bitsVars, radixVars, stopVars>>

\* f_get_top_level_id: the two loops and the return, which unlocks; then the
\* first two operands of the test of f_add_task
top_level_scan(t) ==
    /\ tpc[t] = "top"
    /\ Unlock(t)
    /\ top' = [top EXCEPT ![t] = f_get_top_level_id(d_running_tasks, d_task_queue)]
    /\ tpc' = [tpc EXCEPT ![t] = IF top'[t] # NoId /\ IdOf(sub[t]) # top'[t]
                                 THEN "size" ELSE "add_lock"]
    /\ UNCHANGED <<d_task_queue, d_running_tasks, d_dop, cur, sub, tstate, picked,
                   ndebug, codecVars, terseVars, containerVars, bitsVars, radixVars, stopVars>>

\* f_add_task: d_running_tasks.size() == d_max_threads, evaluated without a
\* lock; on true f_add_task returns false and background runs the task
size_test(t) ==
    /\ tpc[t] = "size"
    /\ \E n \in SizeRead(t) :
         IF n = d_max_threads
         THEN /\ IF sub[t] \in OuterTasks
                 THEN /\ cur' = [cur EXCEPT ![t] = sub[t]]
                      /\ tpc' = [tpc EXCEPT ![t] = "call"]
                      /\ tstate' = [tstate EXCEPT ![sub[t]] = "inline"]
                 ELSE /\ tstate' = [tstate EXCEPT ![sub[t]] = "done"]
                      /\ tpc' = [tpc EXCEPT ![t] = AfterBackground(t)]
                      /\ UNCHANGED cur
              /\ sub' = [sub EXCEPT ![t] = NoTask]
         ELSE /\ tpc' = [tpc EXCEPT ![t] = "add_lock"]
              /\ UNCHANGED <<cur, sub, tstate>>
    /\ UNCHANGED <<d_task_queue, d_running_tasks, d_dop, top, picked, d_mutex,
                   ndebug, codecVars, terseVars, containerVars, bitsVars, radixVars, stopVars>>

\* f_add_task: std::lock_guard<std::mutex> lock(d_mutex)
emplace_lock(t) ==
    /\ tpc[t] = "add_lock"
    /\ Lock(t)
    /\ tpc' = [tpc EXCEPT ![t] = "emplace"]
    /\ UNCHANGED <<d_task_queue, d_running_tasks, d_dop, cur, sub, top, tstate, picked,
                   ndebug, codecVars, terseVars, containerVars, bitsVars, radixVars, stopVars>>

\* f_add_task: d_task_queue.emplace_back(...), the end of the block, which
\* unlocks, and the return of background
emplace_back(t) ==
    /\ tpc[t] = "emplace"
    /\ Unlock(t)
    /\ d_task_queue' = Append(d_task_queue,
            [task |-> sub[t], dop |-> d_dop[IdOf(sub[t])], id |-> IdOf(sub[t])])
    /\ tstate' = [tstate EXCEPT ![sub[t]] = "queued"]
    /\ tpc' = [tpc EXCEPT ![t] = AfterBackground(t)]
    /\ sub' = [sub EXCEPT ![t] = NoTask]
    /\ UNCHANGED <<d_running_tasks, d_dop, cur, top, picked,
                   ndebug, codecVars, terseVars, containerVars, bitsVars, radixVars, stopVars>>

\* f_worker_thread: std::unique_lock<std::mutex> lock(d_mutex) and
\* d_condition.wait, which returns with the mutex locked once the queue is
\* not empty
worker_lock(w) ==
    /\ w \in Workers
    /\ tpc[w] = "idle"
    /\ \A v \in Workers : v < w => tpc[v] # "idle"   \* idle workers are interchangeable
    /\ d_task_queue # <<>>
    /\ Lock(w)
    /\ tpc' = [tpc EXCEPT ![w] = "scan"]
    /\ UNCHANGED <<d_task_queue, d_running_tasks, d_dop, cur, sub, top, tstate, picked,
                   ndebug, codecVars, terseVars, containerVars, bitsVars, radixVars, stopVars>>

\* f_worker_thread: the scan of the queue and the end of the block, which
\* unlocks; without a task the loop starts again
worker_scan(w) ==
    /\ w \in Workers
    /\ tpc[w] = "scan"
    /\ Unlock(w)
    /\ LET i == FirstEligible(d_task_queue, d_running_tasks)
       IN IF i = 0
          THEN /\ tpc' = [tpc EXCEPT ![w] = "idle"]
               /\ UNCHANGED <<d_task_queue, d_running_tasks, cur, tstate>>
          ELSE /\ d_task_queue' = RemoveAt(d_task_queue, i)
               /\ d_running_tasks' = Increment(d_running_tasks, d_task_queue[i].id)
               /\ cur' = [cur EXCEPT ![w] = d_task_queue[i].task]
               /\ tpc' = [tpc EXCEPT ![w] = IF d_task_queue[i].task \in OuterTasks
                                            THEN "call" ELSE "run"]
               /\ tstate' = [tstate EXCEPT ![d_task_queue[i].task] = "running"]
    /\ UNCHANGED <<d_dop, sub, top, picked, ndebug, codecVars, terseVars, containerVars, bitsVars, radixVars, stopVars>>

\* f_worker_thread: task() returned; std::lock_guard<std::mutex> lock(d_mutex)
finish_lock(w) ==
    /\ w \in Workers
    /\ tpc[w] = "run"
    /\ Lock(w)
    /\ tpc' = [tpc EXCEPT ![w] = "fin"]
    /\ UNCHANGED <<d_task_queue, d_running_tasks, d_dop, cur, sub, top, tstate, picked,
                   ndebug, codecVars, terseVars, containerVars, bitsVars, radixVars, stopVars>>

\* f_worker_thread: the erase or decrement of d_running_tasks[concurrent_id]
\* and the end of the block, which unlocks
finish_erase(w) ==
    /\ w \in Workers
    /\ tpc[w] = "fin"
    /\ Unlock(w)
    /\ d_running_tasks' = Decrement1(d_running_tasks, IdOf(cur[w]))
    /\ tstate' = [tstate EXCEPT ![cur[w]] = "done"]
    /\ cur' = [cur EXCEPT ![w] = NoTask]
    /\ tpc' = [tpc EXCEPT ![w] = "idle"]
    /\ UNCHANGED <<d_task_queue, d_dop, sub, top, picked,
                   ndebug, codecVars, terseVars, containerVars, bitsVars, radixVars, stopVars>>

\* Concurrent::running_tasks: std::lock_guard<std::mutex> lock(d_mutex)
running_tasks_lock(t) ==
    /\ t = MainThread
    /\ tpc[t] = "idle"
    /\ Lock(t)
    /\ tpc' = [tpc EXCEPT ![t] = "rt"]
    /\ UNCHANGED <<d_task_queue, d_running_tasks, d_dop, cur, sub, top, tstate, picked,
                   ndebug, codecVars, terseVars, containerVars, bitsVars, radixVars, stopVars>>

\* Concurrent::running_tasks: the count over both structures and the end of
\* the block, which unlocks
running_tasks_count(t) ==
    /\ tpc[t] = "rt"
    /\ Unlock(t)
    /\ tpc' = [tpc EXCEPT ![t] = "idle"]
    /\ UNCHANGED <<d_task_queue, d_running_tasks, d_dop, cur, sub, top, tstate, picked,
                   ndebug, codecVars, terseVars, containerVars, bitsVars, radixVars, stopVars>>

NextMutex ==
    \/ \E t \in Threads, task \in Tasks : background_enter(t, task)
    \/ \E t \in Threads : top_level_lock(t)
    \/ \E t \in Threads : top_level_scan(t)
    \/ \E t \in Threads : size_test(t)
    \/ \E t \in Threads : emplace_lock(t)
    \/ \E t \in Threads : emplace_back(t)
    \/ \E w \in Workers : worker_lock(w)
    \/ \E w \in Workers : worker_scan(w)
    \/ \E t \in Threads : FutureGet(t)
    \/ \E w \in Workers : finish_lock(w)
    \/ \E w \in Workers : finish_erase(w)
    \/ \E t \in Threads : running_tasks_lock(t)
    \/ \E t \in Threads : running_tasks_count(t)

SpecMutex == InitMutex /\ [][NextMutex]_vars

(***************************************************************************)
(* Properties of SpecMutex.                                                *)
(***************************************************************************)
\* a thread that reads or modifies one of the two structures owns d_mutex
AccessUnderMutex ==
    \A t \in Threads :
       (ReadsQueue(t) \/ WritesQueue(t) \/ ReadsRunning(t) \/ WritesRunning(t))
       => d_mutex = {t}

\* no thread reads a structure while another thread modifies it
NoReadDuringWrite ==
    \A t \in Threads : \A u \in Threads \ {t} :
       /\ ~(ReadsQueue(t) /\ WritesQueue(u))
       /\ ~(ReadsRunning(t) /\ WritesRunning(u))

\* C20: every read and every write of d_task_queue and d_running_tasks by a
\* submitting thread or by a worker is made by the thread that owns d_mutex,
\* and no thread reads one of them while another thread modifies it.
C20_QueueAndCountersUnderMutex == AccessUnderMutex /\ NoReadDuringWrite

(***************************************************************************)
(* SpecTerse, the specification: the owning thread inserts frames into a   *)
(* Terse<Concurrent> container, sets small()/fast() and reads the frames,  *)
(* while the workers of the pool run the compressions.                     *)
(***************************************************************************)
InitTerse ==
    /\ ndebug = TRUE
    /\ CodecIdle
    /\ PoolIdle
    /\ d_dop = [id \in Ids |-> 1]
    /\ TerseIdle
    /\ ContainerIdle
    /\ MutexIdle
    /\ BitsIdle
    /\ RadixIdle
    /\ StopIdle

\* Terse::small(val); fast(val) is small(!val)
small(val) ==
    /\ opc.op = "idle"
    /\ d_small' = val
    /\ UNCHANGED <<d_terse_frames, d_concurrent, jobs, job_queue, opc, last_use,
                   d_metadata, model_list, ndebug, codecVars, poolVars, containerVars, mutexVars, bitsVars, radixVars, stopVars>>

\* Terse::insert(pos, data) and push_back(data) of the next frame with
\* Terse_mode::Default.
\* An lvalue is compressed by the caller and stored as bytes.  An rvalue is
\* handed to background(), which executes the task at once when d_dop is 0
\* or f_add_task rejects it, and queues it otherwise; the slot holds the
\* future in both cases.
insert(pos, rvalue) ==
    /\ opc.op = "idle"
    /\ NextJob \in JobIds
    /\ pos \in 1..(Len(d_terse_frames) + 1)
    /\ LET inline == \/ ~rvalue
                     \/ d_concurrent = 0
                     \/ Rejects(f_get_top_level_id(TerseRunning, job_queue), TerseId,
                                TerseRunning)
       IN /\ jobs' = [jobs EXCEPT ![NextJob] =
                        [state |-> IF inline THEN "done" ELSE "queued", data |-> FrameData(NextJob),
                         at_insert |-> d_small, at_run |-> d_small]]
          /\ job_queue' = IF inline THEN job_queue
                          ELSE Append(job_queue, [task |-> NextJob,
                                                  dop |-> d_concurrent * d_cores,
                                                  id |-> TerseId])
    /\ d_terse_frames' = InsertAt(d_terse_frames, pos,
                                  [kind |-> IF rvalue THEN "future" ELSE "bytes",
                                   job |-> NextJob])
    /\ d_metadata' = InsertAt(d_metadata, pos, <<>>)
    /\ model_list' = InsertAt(model_list, pos, [data |-> FrameData(NextJob), meta |-> <<>>])
    /\ UNCHANGED <<d_small, d_concurrent, opc, last_use, ndebug, codecVars, poolVars, containerVars, mutexVars, bitsVars, radixVars, stopVars>>

\* f_worker_thread takes the first task of the container that is below its
\* budget; the task starts with the dispatch of f_compress, which reads d_small
StartJob ==
    /\ Cardinality({j \in JobIds : jobs[j].state = "running"}) < NWorkers
    /\ FirstEligible(job_queue, TerseRunning) # 0
    /\ LET i == FirstEligible(job_queue, TerseRunning)
       IN /\ jobs' = [jobs EXCEPT ![job_queue[i].task].state = "running",
                                  ![job_queue[i].task].at_run = d_small]
          /\ job_queue' = RemoveAt(job_queue, i)
    /\ UNCHANGED <<d_small, d_terse_frames, d_concurrent, opc, last_use,
                   d_metadata, model_list, ndebug, codecVars, poolVars, containerVars, mutexVars, bitsVars, radixVars, stopVars>>

\* the packaged task returns: the shared state of its future is ready
FinishJob(j) ==
    /\ jobs[j].state = "running"
    /\ jobs' = [jobs EXCEPT ![j].state = "done"]
    /\ UNCHANGED <<d_small, d_terse_frames, d_concurrent, job_queue, opc, last_use,
                   d_metadata, model_list, ndebug, codecVars, poolVars, containerVars, mutexVars, bitsVars, radixVars, stopVars>>

\* the owning thread enters at(arg), terse_size(), file_size(), write(os),
\* shrink_to_fit(), erase(arg), dop(arg) or prolix(begin, arg).  file_size
\* and write return early on an empty container.
OwnerCall(op, arg) ==
    /\ opc.op = "idle"
    /\ IF op \in {"at", "erase", "prolix"} THEN arg \in 1..Len(d_terse_frames)
       ELSE IF op = "dop" THEN arg \in {0, 1}
       ELSE arg = 0
    /\ opc' = [op |-> op, arg |-> arg,
               i |-> IF op \in {"at", "prolix"} THEN arg ELSE 1,
               pass |-> IF Len(d_terse_frames) = 0 THEN 0 ELSE Passes(op)]
    /\ UNCHANGED <<d_small, d_terse_frames, d_concurrent, jobs, job_queue, last_use,
                   d_metadata, model_list, ndebug, codecVars, poolVars, containerVars, mutexVars, bitsVars, radixVars, stopVars>>

\* the next f_get_frame(i) of the call the owning thread is in; the two
\* calls per frame of the loop of write are one step
GetFrame ==
    /\ opc.op # "idle"
    /\ opc.pass > 0
    /\ CanGetFrame(d_terse_frames, opc.i)
    /\ d_terse_frames' = f_get_frame(d_terse_frames, opc.i)
    /\ last_use' = [job |-> d_terse_frames[opc.i].job,
                    future |-> d_terse_frames[opc.i].kind = "future",
                    finished |-> jobs[d_terse_frames[opc.i].job].state = "done"]
    /\ opc' = IF opc.op \in {"at", "prolix"} THEN [opc EXCEPT !.pass = 0]
              ELSE IF opc.i < Len(d_terse_frames) THEN [opc EXCEPT !.i = opc.i + 1]
              ELSE [opc EXCEPT !.i = 1, !.pass = opc.pass - 1]
    /\ UNCHANGED <<d_small, d_concurrent, jobs, job_queue, d_metadata, model_list,
                   ndebug, codecVars, poolVars, containerVars, mutexVars, bitsVars, radixVars, stopVars>>

\* the call returns: erase removes the slot and with it the bytes of the
\* frame, dop replaces d_concurrent
Return ==
    /\ opc.op # "idle"
    /\ opc.pass = 0
    /\ IF opc.op = "erase"
       THEN /\ d_terse_frames' = RemoveAt(d_terse_frames, opc.arg)
            /\ jobs' = [jobs EXCEPT ![d_terse_frames[opc.arg].job] = ErasedJob]
            /\ d_metadata' = RemoveAt(d_metadata, opc.arg)
            /\ model_list' = RemoveAt(model_list, opc.arg)
       ELSE UNCHANGED <<d_terse_frames, jobs, d_metadata, model_list>>
    /\ d_concurrent' = IF opc.op = "dop" THEN opc.arg ELSE d_concurrent
    /\ opc' = OwnerIdle
    /\ last_use' = NoUse
    /\ UNCHANGED <<d_small, job_queue, ndebug, codecVars, poolVars, containerVars, mutexVars, bitsVars, radixVars, stopVars>>

\* Terse::metadata(pos, data): no f_get_frame, the compression may be running
metadata(pos, data) ==
    /\ opc.op = "idle"
    /\ pos \in DOMAIN d_terse_frames
    /\ d_metadata[pos] # data
    /\ d_metadata' = [d_metadata EXCEPT ![pos] = data]
    /\ model_list' = [model_list EXCEPT ![pos].meta = data]
    /\ UNCHANGED <<d_small, d_terse_frames, d_concurrent, jobs, job_queue, opc, last_use,
                   ndebug, codecVars, poolVars, containerVars, mutexVars, bitsVars, radixVars, stopVars>>

NextTerse ==
    \/ \E val \in BOOLEAN : small(val)
    \/ \E pos \in 1..MaxFrames, data \in MetaStrings : metadata(pos, data)
    \/ \E pos \in 1..MaxFrames, rvalue \in BOOLEAN : insert(pos, rvalue)
    \/ StartJob
    \/ \E j \in JobIds : FinishJob(j)
    \/ \E op \in OwnerOps, arg \in 0..MaxFrames : OwnerCall(op, arg)
    \/ GetFrame
    \/ Return

SpecTerse == InitTerse /\ [][NextTerse]_vars

(***************************************************************************)
(* Properties of SpecTerse.                                                *)
(***************************************************************************)
\* C6: every frame whose compression has finished has the bytes the same
\* sequence of calls produces when every compression is executed inside
\* insert (d_dop = 0), whatever the workers did in between.
C6_BytesAsSequential ==
    \A j \in JobIds : jobs[j].state = "done" => JobBytes(jobs[j]) = SequentialBytes(jobs[j])

\* a slot that holds bytes holds bytes in the next state, unless it is erased
BytesStayBytes ==
    \A i \in DOMAIN d_terse_frames : \A k \in DOMAIN d_terse_frames' :
        (d_terse_frames[i].kind = "bytes" /\ d_terse_frames'[k].job = d_terse_frames[i].job)
            => d_terse_frames'[k].kind = "bytes"

\* C10: at, write, terse_size, file_size, erase, shrink_to_fit, dop and
\* prolix are handed the bytes of a frame only after its compression has
\* finished, and a slot that holds bytes never holds a future again.
C10_JoinBeforeRead == [](last_use.finished) /\ [][BytesStayBytes]_vars

\* what prolix(begin, i) stores for a frame whose compression has finished;
\* bytes read beyond the frame are all g
Decoded(job, g) ==
    Outcome(f_prolix(JobBytes(job), UInt8, UInt8.bits, Len(job.data), DefaultBlock,
                     g, "little", ndebug))

\* C11: whatever the order in which the compressions finish, frame i of the
\* container decodes to the data the same insertions and removals put at
\* index i of a list, and metadata(i) is the metadata of that list element.
C11_FramesInListOrder ==
    /\ Len(d_terse_frames) = Len(model_list)
    /\ Len(d_metadata) = Len(model_list)
    /\ \A i \in DOMAIN d_terse_frames :
          /\ d_metadata[i] = model_list[i].meta
          /\ jobs[d_terse_frames[i].job].state = "done"
               => \A g \in {0, 1} :
                     Decoded(jobs[d_terse_frames[i].job], g)
                        = [st |-> "ok", vals |-> model_list[i].data]

\* f_get_frame found a future in the slot of a frame that a worker of the
\* pool compressed, and handed its bytes to the call of the owning thread
C10_Witness ==
    /\ last_use.job \in JobIds
    /\ last_use.future
    /\ last_use.finished
    /\ jobs[last_use.job].at_run # jobs[last_use.job].at_insert
    /\ \E i \in DOMAIN d_terse_frames :
          d_terse_frames[i].job = last_use.job /\ d_terse_frames[i].kind = "bytes"

(***************************************************************************)
(* SpecContainer, the specification: one thread builds a Terse container   *)
(* with block_size, small, insert and erase.  SpecFile: it also sets the   *)
(* metadata, writes the container to a stream and constructs a second      *)
(* Terse from that stream.                                                 *)
(***************************************************************************)
InitContainer ==
    /\ ndebug \in BOOLEAN
    /\ CodecIdle
    /\ PoolIdle
    /\ d_dop = [id \in Ids |-> 1]
    /\ TerseIdle
    /\ MutexIdle
    /\ BitsIdle
    /\ RadixIdle
    /\ StopIdle
    /\ trs \in {EmptyTerse(s) : s \in BOOLEAN}
    /\ enc_log = <<>>
    /\ call = NoCall
    /\ file = NoFile
    /\ parsed = NoParsed

\* the process has not aborted and nothing has been written yet
Building == call.ret = "ok" /\ file = NoFile

\* Terse::block_size(block)
block_size(block) ==
    /\ Building
    /\ trs' = SetBlock(trs, block)
    /\ call' = [NoCall EXCEPT !.op = "block_size", !.arg = block]
    /\ UNCHANGED <<enc_log, file, parsed, ndebug, codecVars, poolVars, terseVars, mutexVars, bitsVars, radixVars, stopVars>>

\* Terse::small(val) of the container; fast(val) is small(!val)
set_small(val) ==
    /\ Building
    /\ trs' = [trs EXCEPT !.d_small = val]
    /\ call' = NoCall
    /\ UNCHANGED <<enc_log, file, parsed, ndebug, codecVars, poolVars, terseVars, mutexVars, bitsVars, radixVars, stopVars>>

\* Terse::insert(pos, data, size, mode) and insert(pos, C& data, mode) of a
\* frame of value type T; push_back is insert at number_of_frames().  With
\* asserts the process aborts in f_validate_insert or in the constructor of
\* the Bitqueue; else the frame is compressed and stored.
insert_frame(pos, T, data, m) ==
    /\ Building
    /\ NumberOfFrames(trs) < MaxFrames
    /\ pos \in 1..(NumberOfFrames(trs) + 1)
    /\ LET t1 == f_validate_insert(trs, T, Len(data))
           md == CompressMode(T, m, trs.d_small)
           c == [op |-> "insert", ret |-> "ok", arg |-> pos, T |-> T, mode |-> m,
                 small |-> trs.d_small, before |-> NumberOfFrames(trs),
                 valid |-> ValidInsert(trs, T, Len(data), InsertMode(T, m))]
       IN IF ~ndebug /\ (~c.valid \/ CtorAborts(FrameInitialSize(T, md, t1.d_size, t1.d_block),
                                                ndebug))
          THEN /\ call' = [c EXCEPT !.ret = "abort"]
               /\ UNCHANGED <<trs, enc_log>>
          ELSE \E pad \in Padding(T, data, t1.d_size) :
                 /\ call' = c
                 /\ trs' = [t1 EXCEPT
                       !.d_metadata = InsertAt(t1.d_metadata, pos, <<>>),
                       !.d_terse_frames =
                           InsertAt(t1.d_terse_frames, pos,
                                    Compressed[[T |-> T, mode |-> md, block |-> t1.d_block,
                                                data |-> Supplied(data, t1.d_size, pad)]])]
                 /\ enc_log' = InsertAt(enc_log, pos,
                                        [T |-> T, mode |-> md, block |-> t1.d_block,
                                         size |-> Len(data), valid |-> c.valid])
    /\ UNCHANGED <<file, parsed, ndebug, codecVars, poolVars, terseVars, mutexVars, bitsVars, radixVars, stopVars>>

\* Terse::erase(i)
erase(pos) ==
    /\ Building
    /\ pos \in 1..NumberOfFrames(trs)
    /\ trs' = [trs EXCEPT !.d_metadata = RemoveAt(trs.d_metadata, pos),
                          !.d_terse_frames = RemoveAt(trs.d_terse_frames, pos)]
    /\ enc_log' = RemoveAt(enc_log, pos)
    /\ call' = NoCall
    /\ UNCHANGED <<file, parsed, ndebug, codecVars, poolVars, terseVars, mutexVars, bitsVars, radixVars, stopVars>>

\* Terse::metadata(pos, data) of the container
set_metadata(pos, data) ==
    /\ Building
    /\ pos \in 1..NumberOfFrames(trs)
    /\ trs' = [trs EXCEPT !.d_metadata[pos] = data]
    /\ call' = NoCall
    /\ UNCHANGED <<enc_log, file, parsed, ndebug, codecVars, poolVars, terseVars, mutexVars, bitsVars, radixVars, stopVars>>

\* Terse::write(ostream); it returns at once on an empty container
Write ==
    /\ Building
    /\ NumberOfFrames(trs) > 0
    /\ file' = write(trs)
    /\ call' = NoCall
    /\ UNCHANGED <<trs, enc_log, parsed, ndebug, codecVars, poolVars, terseVars, mutexVars, bitsVars, radixVars, stopVars>>

\* a stream that holds frames and no metadata strings: the header has no
\* metadata_string_sizes attribute
WithoutStrings(f) == [f EXCEPT !.header.metadata_string_sizes = <<>>]

\* Terse(istream) on the stream that was written, or on the same stream
\* with a header that has no memory_sizes_of_frames, or (bare) on a stream
\* of the same frames with no metadata strings and no metadata_string_sizes;
\* bytes the walk reads beyond the frames are all g
Parse(legacy, bare) ==
    /\ file # NoFile
    /\ parsed = NoParsed
    /\ bare => Concat(trs.d_metadata) = <<>>
    /\ \E layout \in {"inline", "pointer"}, g \in {0, 1} :
          parsed' = Let(StreamCtor(IF bare THEN WithoutStrings(file) ELSE file,
                                   legacy, layout, g, ndebug),
                        LAMBDA c : [st |-> c.st, legacy |-> c.legacy, bare |-> bare, t |-> c.t])
    /\ UNCHANGED <<trs, enc_log, call, file, ndebug, codecVars, poolVars, terseVars, mutexVars, bitsVars, radixVars, stopVars>>

NextContainer ==
    \/ \E block \in BlockSizes : block_size(block)
    \/ \E val \in BOOLEAN : set_small(val)
    \/ \E pos \in 1..MaxFrames, T \in ElemTypes, m \in InsertModes :
          \E data \in ContainerFrames(T) : insert_frame(pos, T, data, m)
    \/ \E pos \in 1..MaxFrames : erase(pos)

SpecContainer == InitContainer /\ [][NextContainer]_vars

\* SpecFile: the container is built as in SpecContainer, then written and
\* read back
NextFile ==
    \/ \E block \in BlockSizes : block_size(block)
    \/ \E val \in BOOLEAN : set_small(val)
    \/ \E pos \in 1..MaxFrames, T \in ElemTypes, m \in InsertModes :
          \E data \in ContainerFrames(T) : insert_frame(pos, T, data, m)
    \/ \E pos \in 1..MaxFrames : erase(pos)
    \/ \E pos \in 1..MaxFrames, data \in MetaStrings : set_metadata(pos, data)
    \/ Write
    \/ \E legacy \in BOOLEAN, bare \in BOOLEAN : Parse(legacy, bare)

SpecFile == InitContainer /\ [][NextFile]_vars

(***************************************************************************)
(* Properties of SpecContainer.                                            *)
(***************************************************************************)
\* C12: in a container built by calls whose asserts held, all frames were
\* compressed from V values of signedness S with block size B, and
\* bits_per_val() is the bit depth of the type every frame was encoded from.
C12_FramesShareParameters ==
    (\A i \in DOMAIN enc_log : enc_log[i].valid)
    => \A i \in DOMAIN enc_log :
          /\ enc_log[i].size = trs.d_size
          /\ enc_log[i].T.signed = trs.d_signed
          /\ enc_log[i].block = trs.d_block
          /\ enc_log[i].T.bits = trs.d_prolix_bits

\* the parameters and the frames of the parsed container are those of the
\* container that was written
SameFrames(t, u) ==
    /\ t.d_size = u.d_size
    /\ t.d_signed = u.d_signed
    /\ t.d_block = u.d_block
    /\ t.d_prolix_bits = u.d_prolix_bits
    /\ t.d_terse_frames = u.d_terse_frames

\* C13: the container constructed from the stream that write produced has
\* the V, S, B, P and F, the frame bytes and the metadata strings of the
\* container that was written.
C13_WriteParseRoundTrip ==
    (parsed.st # "none" /\ ~parsed.legacy /\ ~parsed.bare)
    => /\ parsed.st = "ok"
       /\ SameFrames(parsed.t, trs)
       /\ parsed.t.d_metadata = trs.d_metadata

\* C14: for a file without memory_sizes_of_frames the frame lengths that
\* f_fill_terse_frames computes are the lengths the attribute records, and
\* the parsed parameters and frames are those parsed with the attribute.
C14_HeaderWalkFindsFrames ==
    (parsed.st # "none" /\ parsed.legacy /\ ~parsed.bare)
    => /\ parsed.st = "ok"
       /\ Sizes(parsed.t.d_terse_frames)
            = ReadSizes(file.header.memory_sizes_of_frames, 0 - 1, <<>>)
       /\ SameFrames(parsed.t, StreamCtor(file, FALSE, "inline", 0, ndebug).t)

\* every frame present was compressed with the block size block_size() returns
FramesHaveBlockSize == \A i \in DOMAIN enc_log : enc_log[i].block = trs.d_block

\* a call of block_size(b) on a container with frames changes no member; on
\* an empty container it sets the block size to b and nothing else
BlockSizeStep ==
    call'.op = "block_size"
    => IF NumberOfFrames(trs) > 0 THEN trs' = trs
       ELSE trs' = [trs EXCEPT !.d_block = call'.arg]

C16_MismatchIsRejected ==
    (call.op = "insert" /\ call.before > 0 /\ ~call.valid)
    => (call.ret = "error" /\ NumberOfFrames(trs) = call.before)

\* C17: insert or push_back of signed input with Terse_mode::Unsigned or
\* Small_unsigned is rejected with an error reported to the caller: the call
\* does not return normally with the frame stored.
C17_UnsignedModeForSignedIsRejected ==
    (call.op = "insert" /\ call.T.signed /\ call.mode \in {"Unsigned", "Small_unsigned"})
    => ~(call.ret = "ok" /\ NumberOfFrames(trs) = call.before + 1)

\* C18: a frame inserted with Terse_mode::Default is compressed in Signed
\* mode if the input is signed, else in Small_unsigned mode if d_small is
\* set, else in Unsigned mode; every frame of a container with S = 1 is
\* compressed in Signed mode.
C18_DefaultModeSelection ==
    /\ (call.op = "insert" /\ call.ret = "ok" /\ call.mode = "Default")
       => enc_log[call.arg].mode = IF call.T.signed THEN "Signed"
                                   ELSE IF call.small THEN "Small_unsigned"
                                   ELSE "Unsigned"
    /\ trs.d_signed => \A i \in DOMAIN enc_log : enc_log[i].mode = "Signed"

(***************************************************************************)
(* SpecBits, the specification: a Bitqueue_push_back writes single-bit     *)
(* fields (the lead) and then fields of a value type T into a buffer, or   *)
(* the header of a block; a Bitqueue_pop constructed over the flushed      *)
(* buffer pops them, or skips bits and pops.                               *)
(***************************************************************************)
BitsTypes == {UInt8, Int8, UInt16, Int16}
\* the same width with the other signedness
Flip(T) == [T EXCEPT !.signed = ~T.signed]

\* the numbers of bits written before the fields: none, a few, up to the
\* end of the first word and into the second
Leads == {0, 3, 60, 64, 67}

\* the widths fields of type T are pushed with, and the values: zero, a
\* small value, values with bits above the narrow widths, the extremes
FieldWidths(T) == {1, 5, T.bits}
FieldValues(T) ==
    IF T.signed THEN {TMin(T), 0 - 3, 5} ELSE {0, 5, 2^(T.bits - 2) + 9, TMax(T)}
Fields(T) == [B : FieldWidths(T), val : FieldValues(T)]
FieldSeqs(T) == UNION {[1..n -> Fields(T)] : n \in 1..MaxFields}

\* the widths a block header is written for, the widths of the block before
\* it (besides the same width), and the widths skipped
HeaderWidths == 0..WordBits
HeaderPrevs == {0, 7, WordBits}
SkipWidths == {0, 3, 8, 61, 64, 70}
SkipAt == {0, 2, 62}

InitBits ==
    /\ ndebug = TRUE
    /\ CodecIdle
    /\ PoolIdle
    /\ d_dop = [id \in Ids |-> 1]
    /\ TerseIdle
    /\ ContainerIdle
    /\ MutexIdle
    /\ RadixIdle
    /\ StopIdle
    /\ \/ \E T \in BitsTypes, lead \in Leads :
            \E fields \in FieldSeqs(T), Tpop \in {T, Flip(T)} :
               bq = [pc |-> "input", kind |-> "fields", T |-> T, Tpop |-> Tpop,
                     lead |-> lead, fields |-> fields, prev |-> 0, bits |-> 0,
                     mem |-> <<>>, vals |-> <<>>, at |-> 0, used |-> 0, after |-> 0,
                  ref |-> 0]
       \/ \E lead \in Leads, bits \in HeaderWidths :
          \E prev \in HeaderPrevs \cup {bits} :
            bq = [pc |-> "input", kind |-> "header", T |-> UInt8, Tpop |-> UInt8,
                  lead |-> lead, fields |-> <<>>, prev |-> prev, bits |-> bits,
                  mem |-> <<>>, vals |-> <<>>, at |-> 0, used |-> 0, after |-> 0,
                  ref |-> 0]

RECURSIVE PushLeadFrom(_, _, _)
\* the lead is written 16 bits at a time, of which bits 0, 3, 6, ... are set
PushLeadFrom(q, lead, h) ==
    IF lead = 0 THEN q
    ELSE PushLeadFrom(push_back_val(q, Min(lead, 16), 37449 % (2^Min(lead, 16)), h),
                      lead - Min(lead, 16), h)
\* the writer after the lead
PushLead(lead, h) == PushLeadFrom(NewPushBack, lead, h)

RECURSIVE PushFieldSeq(_, _, _, _)
\* push_back(B, val) for each field in turn
PushFieldSeq(q, T, fields, h) ==
    IF fields = <<>> THEN q
    ELSE PushFieldSeq(push_back(q, Head(fields).B, T, <<Head(fields).val>>, h),
                      T, Tail(fields), h)

RECURSIVE PopFieldSeq(_, _, _, _)
\* pop<T>(B) for each field in turn: [r, vals]
PopFieldSeq(r, T, fields, acc) ==
    IF fields = <<>> THEN [r |-> r, vals |-> acc]
    ELSE Let(pop(r, Head(fields).B, T), LAMBDA a :
           PopFieldSeq(a.r, T, Tail(fields), Append(acc, a.v)))

RECURSIVE FieldBits(_)
\* the number of bits of the fields
FieldBits(fields) == IF fields = <<>> THEN 0 ELSE Head(fields).B + FieldBits(Tail(fields))

RECURSIVE Discard(_, _)
\* w bits popped and discarded, at most 16 at a time
Discard(r, w) ==
    IF w = 0 THEN r ELSE Discard(pop(r, Min(w, 16), UInt16).r, w - Min(w, 16))

\* push_back of the lead and of every field, then flush_buffer()
PushFields ==
    /\ bq.pc = "input"
    /\ bq.kind = "fields"
    /\ bq' = [bq EXCEPT !.pc = "written",
                        !.mem = flush_buffer(PushFieldSeq(PushLead(bq.lead, "little"),
                                                          bq.T, bq.fields, "little"),
                                             "little")]
    /\ UNCHANGED <<ndebug, codecVars, poolVars, terseVars, containerVars, mutexVars,
                   radixVars, stopVars>>

\* a reader over the buffer pops the lead and then every field with its width
PopFields ==
    /\ bq.pc = "written"
    /\ bq.kind = "fields"
    /\ \E g \in {0, 1} :
         Let(PopFieldSeq(Discard(NewPop(bq.mem, g, "little"), bq.lead),
                         bq.Tpop, bq.fields, <<>>),
             LAMBDA res : bq' = [bq EXCEPT !.pc = IF res.r.ub THEN "ub" ELSE "read",
                                           !.vals = res.vals])
    /\ UNCHANGED <<ndebug, codecVars, poolVars, terseVars, containerVars, mutexVars,
                   radixVars, stopVars>>

\* a reader over the buffer pops k bits; then skip(w) and a pop of B bits,
\* and for comparison w bits popped and discarded and the same pop.  All
\* bits concerned were written.
SkipPop(k, w, B) ==
    /\ bq.pc = "written"
    /\ bq.kind = "fields"
    /\ k + w + B <= bq.lead + FieldBits(bq.fields)
    /\ \E g \in {0, 1} :
         Let(Discard(NewPop(bq.mem, g, "little"), k), LAMBDA r0 :
           bq' = [bq EXCEPT !.pc = "skipped",
                            !.at = k,
                            !.used = w,
                            !.after = pop(skip(r0, w), B, UInt8).v,
                            !.ref = pop(Discard(r0, w), B, UInt8).v])
    /\ UNCHANGED <<ndebug, codecVars, poolVars, terseVars, containerVars, mutexVars,
                   radixVars, stopVars>>

\* the lead, then PUSH_BITS(prevbits, bits), then flush_buffer()
PushHeader ==
    /\ bq.pc = "input"
    /\ bq.kind = "header"
    /\ bq' = [bq EXCEPT !.pc = "written",
                        !.mem = flush_buffer(PUSH_BITS(PushLead(bq.lead, "little"),
                                                       bq.prev, bq.bits, "little"),
                                             "little")]
    /\ UNCHANGED <<ndebug, codecVars, poolVars, terseVars, containerVars, mutexVars,
                   radixVars, stopVars>>

\* a reader over the buffer pops the lead; then BITS(bits) with bits holding
\* the previous width
PopHeader ==
    /\ bq.pc = "written"
    /\ bq.kind = "header"
    /\ \E g \in {0, 1} :
         Let(Discard(NewPop(bq.mem, g, "little"), bq.lead), LAMBDA r0 :
         Let(BITS(r0, bq.prev), LAMBDA hd :
           bq' = [bq EXCEPT !.pc = "read",
                            !.vals = <<hd.bits>>,
                            !.used = Consumed(hd.r) - Consumed(r0)]))
    /\ UNCHANGED <<ndebug, codecVars, poolVars, terseVars, containerVars, mutexVars,
                   radixVars, stopVars>>

NextBits ==
    \/ PushFields
    \/ PopFields
    \/ \E k \in SkipAt, w \in SkipWidths, B \in {1, 5, 8} : SkipPop(k, w, B)
    \/ PushHeader
    \/ PopHeader

SpecBits == InitBits /\ [][NextBits]_vars

(***************************************************************************)
(* Properties of SpecBits.                                                 *)
(***************************************************************************)
\* the low B bits of val in two's complement, zero-extended for an unsigned
\* result type and sign-extended from bit B - 1 for a signed one
LowBits(T, B, val) ==
    IF T.signed /\ (val % (2^B)) >= 2^(B - 1) THEN (val % (2^B)) - 2^B ELSE val % (2^B)

\* C23: fields pushed with widths B_i and popped with the same widths in the
\* same order come back as the low B_i bits of the values pushed, extended
\* as the result type demands, whatever bits the values have above B_i.
C23_PushPopRoundTrip ==
    (bq.pc \in {"read", "ub"} /\ bq.kind = "fields")
    => /\ bq.pc = "read"
       /\ bq.vals = [i \in 1..Len(bq.fields) |->
                        LowBits(bq.Tpop, bq.fields[i].B, bq.fields[i].val)]

\* C24: a pop after skip(w) returns what it returns after w bits were popped
\* and discarded.
C24_SkipAdvancesByWidth ==
    bq.pc = "skipped" => bq.after = bq.ref

\* the number of bits of the header of a block
HeaderLength(prev, bits) ==
    IF bits = prev THEN 1 ELSE IF bits < 7 THEN 4 ELSE IF bits < 10 THEN 6 ELSE 12

\* the header PUSH_BITS wrote for (prev, bits) is read by BITS, started from
\* prev, as bits, and BITS consumes the bits of the header and no more
HeaderGrammar ==
    (bq.pc = "read" /\ bq.kind = "header")
    => /\ bq.vals = <<bq.bits>>
       /\ bq.used = HeaderLength(bq.prev, bq.bits)

(***************************************************************************)
(* SpecCodec: the blocks the encoder wrote against the blocks the decoder  *)
(* read.                                                                   *)
(***************************************************************************)
\* the block size the loops of the frame's mode step with
LoopBlock == IF InsertMode(elem, mode) = "Small_unsigned" THEN Min(d_block, SmallBlockClamp)
             ELSE d_block

\* the payload bits of block b when every value takes the width its header
\* gives and a radix-packed block the width of (max + 1)^num - 1
PayloadBits(m, b) ==
    IF m # "Small_unsigned" THEN b.num * (IF b.masked THEN b.masked_bits ELSE b.level)
    ELSE IF ~b.weak THEN b.num * b.level
    ELSE IF b.level \in {0, 1, 3} THEN b.num * BitLen(b.level)
    ELSE BitLen((b.level + 1)^b.num - 1)

\* C21: the header grammar of the Signed and Unsigned modes is the one of
\* PUSH_BITS and BITS (HeaderGrammar), and when a frame of these modes has
\* been unpacked the decoder has read as many blocks as the encoder wrote
\* and after every block both hold the same carried significant bits and
\* the same carried masked bits
C21_CarriedWidthsAgree ==
    (cpc = "decoded" /\ InsertMode(elem, mode) # "Small_unsigned")
    => /\ Len(dec_blocks) = Len(enc_blocks)
       /\ \A i \in 1..Len(enc_blocks) :
            /\ dec_blocks[i].level = enc_blocks[i].level
            /\ dec_blocks[i].masked_bits = enc_blocks[i].masked_bits

\* C22: when the frame size is not a multiple of the block size, the last
\* block the encoder wrote and the last block the decoder read both have
\* V mod B values; in the Signed and Unsigned modes their payload is that
\* number of values times the width of the header, and a weak block with a
\* maximum in {2, 4, 5, 6} is written and read with the width of
\* (max + 1)^(V mod B) - 1
C22_FinalShortBlock ==
    (cpc = "decoded" /\ Len(frame) % LoopBlock # 0)
    => /\ enc_blocks # <<>>
       /\ dec_blocks # <<>>
       /\ LET m == InsertMode(elem, mode)
              e == enc_blocks[Len(enc_blocks)]
              d == dec_blocks[Len(dec_blocks)]
          IN /\ e.num = Len(frame) % LoopBlock
             /\ d.num = Len(frame) % LoopBlock
             /\ (m # "Small_unsigned" \/ (e.weak /\ e.level \in {2, 4, 5, 6}))
                => /\ e.payload = PayloadBits(m, e)
                   /\ d.payload = PayloadBits(m, e)

\* C25: a frame of uint8_t values, compressed in any mode and unpacked into
\* int16_t, gives back every value, except that a value with all 8 bits set
\* may come back as -1
C25_UnsignedIntoSigned ==
    (cpc = "decoded" /\ elem = UInt8)
    => /\ out_signed.st = "ok"
       /\ Len(out_signed.vals) = Len(frame)
       /\ \A i \in 1..Len(frame) :
            \/ out_signed.vals[i] = frame[i]
            \/ frame[i] = TMax(elem) /\ out_signed.vals[i] = 0 - 1

\* C26: when a Small_unsigned frame has been unpacked, every masked block
\* the encoder wrote is followed by one continuation bit, which is 1 exactly
\* if the next block is a masked block too; the decoder read the same
\* number of blocks, one continuation bit after every masked block, took the
\* block after a masked block for a masked block exactly if that bit was 1,
\* and agrees with the encoder for every block on whether it is masked,
\* whether it is weak, and on its maximum or significant bits
C26_MaskedRunProtocol ==
    (cpc = "decoded" /\ InsertMode(elem, mode) = "Small_unsigned")
    => /\ Len(dec_blocks) = Len(enc_blocks)
       /\ \A i \in 1..Len(enc_blocks) :
            LET e == enc_blocks[i]
                d == dec_blocks[i]
            IN /\ e.masked
                  => /\ e.cont \in {0, 1}
                     /\ e.cont = 1 <=> (i < Len(enc_blocks) /\ enc_blocks[i + 1].masked)
               /\ d.masked = e.masked
               /\ d.weak = e.weak
               /\ d.level = e.level
               /\ d.masked
                  => /\ d.cont \in {0, 1}
                     /\ i < Len(dec_blocks) => (dec_blocks[i + 1].masked <=> d.cont = 1)

(***************************************************************************)
(* SpecRadix: one weak block with a maximum in {2, 4, 5, 6} is packed by   *)
(* f_compress_weak_block and unpacked by f_prolix_small_unsigned.  A       *)
(* std::size_t is held as four 16-bit limbs, least significant first: the  *)
(* arithmetic of the code is the arithmetic on four limbs, which drops the *)
(* carry out of bit 63.  The same sums on five limbs do not overflow for   *)
(* the blocks considered (7^24 < 2^68) and give the integers of the claim. *)
(* The packed field is the first field of its word and the container's     *)
(* block size is the length of the block.                                  *)
(***************************************************************************)
SizeLimbs == WordBits \div 16
WideLimbs == SizeLimbs + 1

\* a value below 2^31 in k limbs
ToLimbs(n, k) ==
    [i \in 1..k |-> IF i = 1 THEN n % 65536 ELSE IF i = 2 THEN n \div 65536 ELSE 0]

RECURSIVE MulCarry(_, _, _, _)
MulCarry(w, m, i, carry) ==
    IF i > Len(w) THEN <<>>
    ELSE <<(w[i] * m + carry) % 65536>> \o MulCarry(w, m, i + 1, (w[i] * m + carry) \div 65536)

\* w * m for m < 2^15, in as many limbs as w has
MulLimbs(w, m) == MulCarry(w, m, 1, 0)

RECURSIVE AddCarry(_, _, _, _)
AddCarry(a, b, i, carry) ==
    IF i > Len(a) THEN <<>>
    ELSE <<(a[i] + b[i] + carry) % 65536>> \o AddCarry(a, b, i + 1, (a[i] + b[i] + carry) \div 65536)

\* a + b, in as many limbs as a has
AddLimbs(a, b) == AddCarry(a, b, 1, 0)

RECURSIVE Borrow(_, _)
\* w - 1, in as many limbs as w has (0 - 1 is all ones)
Borrow(w, i) ==
    IF i > Len(w) THEN w
    ELSE IF w[i] > 0 THEN [w EXCEPT ![i] = w[i] - 1]
    ELSE Borrow([w EXCEPT ![i] = 65535], i + 1)

MinusOne(w) == Borrow(w, 1)

RECURSIVE TopLimb(_, _)
TopLimb(w, i) == IF i = 0 THEN 0 ELSE IF w[i] # 0 THEN i ELSE TopLimb(w, i - 1)

\* f_most_significant_bit(std::size_t val): the bit length of w
BitLenLimbs(w) ==
    IF TopLimb(w, Len(w)) = 0 THEN 0
    ELSE 16 * (TopLimb(w, Len(w)) - 1) + BitLen(w[TopLimb(w, Len(w))])

RECURSIVE DivRem(_, _, _, _)
\* long division of w by m from limb i down: [q, r]
DivRem(w, m, i, r) ==
    IF i = 0 THEN [q |-> w, r |-> r]
    ELSE DivRem([w EXCEPT ![i] = (r * 65536 + w[i]) \div m], m, i - 1, (r * 65536 + w[i]) % m)

\* the low B bits of w
LowLimbs(w, B) ==
    [i \in 1..Len(w) |->
        IF 16 * i <= B THEN w[i]
        ELSE IF 16 * (i - 1) >= B THEN 0
        ELSE w[i] % (2^(B - 16 * (i - 1)))]

\* the low limbs of w
Truncate(w, k) == SubSeq(w, 1, k)

RECURSIVE PackLoop(_, _, _, _)
\* for (i ...) { compact += mult * data_block[i]; mult *= (maxval + 1); }
\* on words of Len(s.mult) limbs; s = [mult, compact]
PackLoop(s, data_block, maxval, i) ==
    IF i > Len(data_block) THEN s
    ELSE PackLoop([mult |-> MulLimbs(s.mult, maxval + 1),
                   compact |-> AddLimbs(s.compact, MulLimbs(s.mult, data_block[i]))],
                  data_block, maxval, i + 1)

\* std::size_t mult = 1; std::size_t compact = 0; and the loop, on k limbs
Packed(data_block, maxval, k) ==
    PackLoop([mult |-> ToLimbs(1, k), compact |-> ToLimbs(0, k)], data_block, maxval, 1)

RECURSIVE UnpackLoop(_, _, _)
\* for (i ...) { data_block[i] = val % (max + 1); val /= max + 1; }
UnpackLoop(val, radix, n) ==
    IF n = 0 THEN <<>>
    ELSE <<DivRem(val, radix, Len(val), 0).r>>
         \o UnpackLoop(DivRem(val, radix, Len(val), 0).q, radix, n - 1)

\* the blocks: every length the clamped block size allows, every weak
\* maximum that is radix-packed, the maximum in every place, in the first
\* only, in the last only, and next to all other digits
RadixMaxima == {2, 4, 5, 6}
RadixBlocks(maxval) ==
    UNION {{[i \in 1..n |-> maxval],
            [i \in 1..n |-> IF i = 1 THEN maxval ELSE 0],
            [i \in 1..n |-> IF i = n THEN maxval ELSE 0],
            [i \in 1..n |-> IF i = n THEN maxval ELSE i % (maxval + 1)]}
           : n \in 1..SmallBlockClamp}

InitRadix ==
    /\ ndebug = TRUE
    /\ CodecIdle
    /\ PoolIdle
    /\ d_dop = [id \in Ids |-> 1]
    /\ TerseIdle
    /\ ContainerIdle
    /\ MutexIdle
    /\ BitsIdle
    /\ StopIdle
    /\ \E maxval \in RadixMaxima : \E data_block \in RadixBlocks(maxval) :
         rx = [pc |-> "input", maxval |-> maxval, data_block |-> data_block,
               mult |-> ToLimbs(0, SizeLimbs), compact |-> ToLimbs(0, SizeLimbs),
               bits |-> 0, popbits |-> 0, vals |-> <<>>]

\* f_compress_weak_block, default branch: mult and compact after the loop
\* and the width f_most_significant_bit(mult - 1) the field is pushed with
Pack ==
    /\ rx.pc = "input"
    /\ rx' = [rx EXCEPT !.pc = "packed",
                        !.mult = Packed(rx.data_block, rx.maxval, SizeLimbs).mult,
                        !.compact = Packed(rx.data_block, rx.maxval, SizeLimbs).compact,
                        !.bits = BitLenLimbs(MinusOne(
                                     Packed(rx.data_block, rx.maxval, SizeLimbs).mult))]
    /\ UNCHANGED <<ndebug, codecVars, poolVars, terseVars, containerVars, mutexVars, bitsVars, stopVars>>

\* std::pow(max + 1, block) as an integer of five limbs
Power(radix, block) == Packed([i \in 1..block |-> 0], radix - 1, WideLimbs).mult

\* the widths std::size_t const mult = std::pow(max + 1, block) - 1 can give
\* to the pop: the bit length of the power minus one when it is below 2^64
\* (the rounding of the double does not change the bit length of these
\* powers); else the conversion of the double is undefined, and gives 0 or
\* a word with bit 63 set
PopWidths(radix, block) ==
    IF Power(radix, block)[WideLimbs] = 0
    THEN {BitLenLimbs(MinusOne(Power(radix, block)))}
    ELSE {0, WordBits}

\* f_prolix_small_unsigned, default branch with max < 7: the pop of the
\* field and the digits stored
Unpack ==
    /\ rx.pc = "packed"
    /\ \E B \in PopWidths(rx.maxval + 1, Len(rx.data_block)) :
         rx' = [rx EXCEPT !.pc = "unpacked",
                          !.popbits = B,
                          !.vals = UnpackLoop(LowLimbs(rx.compact, B), rx.maxval + 1,
                                              Len(rx.data_block))]
    /\ UNCHANGED <<ndebug, codecVars, poolVars, terseVars, containerVars, mutexVars, bitsVars, stopVars>>

NextRadix == Pack \/ Unpack

SpecRadix == InitRadix /\ [][NextRadix]_vars

\* the integers of the claim: sum of v_i * (max + 1)^i and (max + 1)^block_len
ExactPacked == Packed(rx.data_block, rx.maxval, WideLimbs)

\* C29: for every block length 1..24 and every weak maximum in {2, 4, 5, 6}
\* the packed integer and (max + 1)^block_len are below 2^64 and are what
\* the 64-bit words compact and mult hold, the field is at most 64 bits
\* wide, the decoder pops the field with the width it was pushed with, and
\* the digits it stores are the values of the block
C29_RadixFitsWord ==
    rx.pc \in {"packed", "unpacked"}
    => /\ ExactPacked.mult[WideLimbs] = 0
       /\ ExactPacked.compact[WideLimbs] = 0
       /\ rx.mult = Truncate(ExactPacked.mult, SizeLimbs)
       /\ rx.compact = Truncate(ExactPacked.compact, SizeLimbs)
       /\ rx.bits <= WordBits
       /\ rx.pc = "unpacked" => (rx.popbits = rx.bits /\ rx.vals = rx.data_block)

(***************************************************************************)
(* SpecStop: the workers of the pool and ~c_Global_thread_pool.  tpc tells *)
(* where a worker is:                                                      *)
(*   "idle"     at the top of while (true), before its unique_lock         *)
(*   "pred"     in d_condition.wait(lock, pred), about to evaluate pred    *)
(*   "block"    pred was false: about to block in the wait                 *)
(*   "waiting"  blocked in the wait, the mutex released                    *)
(*   "woken"    notified, about to lock the mutex again                    *)
(*   "scan"     in the scan of the queue                                   *)
(*   "run"      in task()                                                  *)
(*   "fin"      in the bookkeeping of d_running_tasks                      *)
(*   "exit"     returned from f_worker_thread                              *)
(* d_condition is the set of workers blocked in the wait.  No task is      *)
(* submitted any more: the queue holds the tasks left when the destructor  *)
(* runs, which it may do at any moment.                                    *)
(***************************************************************************)
QueueEntry(task) == [task |-> task, dop |-> 1, id |-> IdOf(task)]

\* what the queue holds when the workers are followed
LeftQueues ==
    {<<>>,
     <<QueueEntry(<<"leaf", 1>>)>>,
     <<QueueEntry(<<"leaf", 1>>), QueueEntry(<<"sub", 1>>)>>,
     <<QueueEntry(<<"sub", 1>>), QueueEntry(<<"sub", NOuter>>)>>}

InQueue(queue) == {queue[i].task : i \in 1..Len(queue)}

InitStop ==
    /\ ndebug = TRUE
    /\ CodecIdle
    /\ TerseIdle
    /\ ContainerIdle
    /\ MutexIdle
    /\ BitsIdle
    /\ RadixIdle
    /\ StopIdle
    /\ d_task_queue \in LeftQueues
    /\ d_running_tasks = [id \in {} |-> 0]
    /\ d_dop = [id \in Ids |-> 1]
    /\ tpc = [t \in Threads |-> "idle"]
    /\ cur = [t \in Threads |-> NoTask]
    /\ sub = [t \in Threads |-> NoTask]
    /\ top = [t \in Threads |-> NoId]
    /\ tstate = [task \in Tasks |-> IF task \in InQueue(d_task_queue) THEN "queued" ELSE "new"]
    /\ picked = NoPick

\* d_condition.notify_all(): every blocked worker leaves the wait
NotifyAll(pcs) == [t \in Threads |-> IF t \in d_condition THEN "woken" ELSE pcs[t]]

\* std::unique_lock<std::mutex> lock(d_mutex) at the top of the loop
stop_worker_lock(w) ==
    /\ tpc[w] = "idle"
    /\ Lock(w)
    /\ tpc' = [tpc EXCEPT ![w] = "pred"]
    /\ UNCHANGED <<d_task_queue, d_running_tasks, d_dop, cur, sub, top, tstate, picked,
                   ndebug, codecVars, terseVars, containerVars, bitsVars, radixVars, stopVars>>

\* the predicate of the wait, d_stop || !d_task_queue.empty(), evaluated
\* with the mutex locked, and on true the test
\* if (d_task_queue.empty() && d_stop) return, which unlocks
wait_pred(w) ==
    /\ tpc[w] = "pred"
    /\ d_mutex = {w}
    /\ IF d_stop \/ d_task_queue # <<>>
       THEN IF d_task_queue = <<>> /\ d_stop
            THEN /\ tpc' = [tpc EXCEPT ![w] = "exit"]
                 /\ d_mutex' = {}
            ELSE /\ tpc' = [tpc EXCEPT ![w] = "scan"]
                 /\ UNCHANGED d_mutex
       ELSE /\ tpc' = [tpc EXCEPT ![w] = "block"]
            /\ UNCHANGED d_mutex
    /\ UNCHANGED <<d_task_queue, d_running_tasks, d_dop, cur, sub, top, tstate, picked,
                   ndebug, codecVars, terseVars, containerVars, bitsVars, radixVars, stopVars>>

\* d_condition.wait(lock): the mutex is released and the worker blocks
wait_block(w) ==
    /\ tpc[w] = "block"
    /\ Unlock(w)
    /\ d_condition' = d_condition \cup {w}
    /\ tpc' = [tpc EXCEPT ![w] = "waiting"]
    /\ UNCHANGED <<d_task_queue, d_running_tasks, d_dop, cur, sub, top, tstate, picked,
                   d_stop, dtor, ndebug, codecVars, terseVars, containerVars, bitsVars, radixVars>>

\* a wait may return without a notification
spurious_wakeup(w) ==
    /\ tpc[w] = "waiting"
    /\ d_condition' = d_condition \ {w}
    /\ tpc' = [tpc EXCEPT ![w] = "woken"]
    /\ UNCHANGED <<d_task_queue, d_running_tasks, d_dop, cur, sub, top, tstate, picked,
                   d_stop, dtor, ndebug, codecVars, terseVars, containerVars, mutexVars,
                   bitsVars, radixVars>>

\* the wait locks the mutex again before it evaluates the predicate
wait_relock(w) ==
    /\ tpc[w] = "woken"
    /\ Lock(w)
    /\ tpc' = [tpc EXCEPT ![w] = "pred"]
    /\ UNCHANGED <<d_task_queue, d_running_tasks, d_dop, cur, sub, top, tstate, picked,
                   ndebug, codecVars, terseVars, containerVars, bitsVars, radixVars, stopVars>>

\* the scan of the queue and the end of the block, which unlocks; without a
\* task the loop starts again
stop_worker_scan(w) ==
    /\ tpc[w] = "scan"
    /\ Unlock(w)
    /\ LET i == FirstEligible(d_task_queue, d_running_tasks)
       IN IF i = 0
          THEN /\ tpc' = [tpc EXCEPT ![w] = "idle"]
               /\ UNCHANGED <<d_task_queue, d_running_tasks, cur, tstate>>
          ELSE /\ d_task_queue' = RemoveAt(d_task_queue, i)
               /\ d_running_tasks' = Increment(d_running_tasks, d_task_queue[i].id)
               /\ cur' = [cur EXCEPT ![w] = d_task_queue[i].task]
               /\ tpc' = [tpc EXCEPT ![w] = "run"]
               /\ tstate' = [tstate EXCEPT ![d_task_queue[i].task] = "running"]
    /\ UNCHANGED <<d_dop, sub, top, picked, ndebug, codecVars, terseVars, containerVars,
                   bitsVars, radixVars, stopVars>>

\* task() returned; std::lock_guard<std::mutex> lock(d_mutex)
stop_finish_lock(w) ==
    /\ tpc[w] = "run"
    /\ Lock(w)
    /\ tpc' = [tpc EXCEPT ![w] = "fin"]
    /\ UNCHANGED <<d_task_queue, d_running_tasks, d_dop, cur, sub, top, tstate, picked,
                   ndebug, codecVars, terseVars, containerVars, bitsVars, radixVars, stopVars>>

\* the erase or decrement of d_running_tasks[concurrent_id],
\* d_condition.notify_all() and the end of the block, which unlocks
stop_finish(w) ==
    /\ tpc[w] = "fin"
    /\ Unlock(w)
    /\ d_running_tasks' = Decrement1(d_running_tasks, IdOf(cur[w]))
    /\ tstate' = [tstate EXCEPT ![cur[w]] = "done"]
    /\ cur' = [cur EXCEPT ![w] = NoTask]
    /\ d_condition' = {}
    /\ tpc' = [NotifyAll(tpc) EXCEPT ![w] = "idle"]
    /\ UNCHANGED <<d_task_queue, d_dop, sub, top, picked, d_stop, dtor,
                   ndebug, codecVars, terseVars, containerVars, bitsVars, radixVars>>

\* ~c_Global_thread_pool: d_stop = true, without the mutex
dtor_stop ==
    /\ dtor = "none"
    /\ d_stop' = TRUE
    /\ dtor' = "stop"
    /\ UNCHANGED <<d_condition, ndebug, codecVars, poolVars, terseVars, containerVars,
                   mutexVars, bitsVars, radixVars>>

\* ~c_Global_thread_pool: d_condition.notify_all()
dtor_notify ==
    /\ dtor = "stop"
    /\ d_condition' = {}
    /\ tpc' = NotifyAll(tpc)
    /\ dtor' = "join"
    /\ UNCHANGED <<d_task_queue, d_running_tasks, d_dop, cur, sub, top, tstate, picked,
                   d_stop, ndebug, codecVars, terseVars, containerVars, mutexVars,
                   bitsVars, radixVars>>

\* ~c_Global_thread_pool: the loop of worker.join() has returned from
\* every join
dtor_join ==
    /\ dtor = "join"
    /\ \A w \in Workers : tpc[w] = "exit"
    /\ dtor' = "done"
    /\ UNCHANGED <<d_stop, d_condition, ndebug, codecVars, poolVars, terseVars, containerVars,
                   mutexVars, bitsVars, radixVars>>

\* the steps of a worker that it takes whenever it can
WorkerStep(w) ==
    \/ stop_worker_lock(w)
    \/ wait_pred(w)
    \/ wait_block(w)
    \/ wait_relock(w)
    \/ stop_worker_scan(w)
    \/ stop_finish_lock(w)
    \/ stop_finish(w)

DtorStep == dtor_notify \/ dtor_join

NextStop ==
    \/ \E w \in Workers : stop_worker_lock(w)
    \/ \E w \in Workers : wait_pred(w)
    \/ \E w \in Workers : wait_block(w)
    \/ \E w \in Workers : spurious_wakeup(w)
    \/ \E w \in Workers : wait_relock(w)
    \/ \E w \in Workers : stop_worker_scan(w)
    \/ \E w \in Workers : stop_finish_lock(w)
    \/ \E w \in Workers : stop_finish(w)
    \/ dtor_stop
    \/ dtor_notify
    \/ dtor_join

\* every thread that can take a step takes one; the destructor need not
\* start and a wait need not return without a notification
SpecStop ==
    /\ InitStop
    /\ [][NextStop]_vars
    /\ \A w \in Workers : WF_vars(WorkerStep(w))
    /\ WF_vars(DtorStep)

\* C28: once the destructor has set d_stop and notified, every worker
\* leaves its loop and the joins return; and a worker leaves its loop only
\* when no task is queued, so that the tasks queued at the stop are all
\* executed when the workers have left
C28_ShutdownTerminates ==
    /\ (dtor = "join") ~> (dtor = "done" /\ \A w \in Workers : tpc[w] = "exit")
    /\ []((\A w \in Workers : tpc[w] = "exit")
          => (d_task_queue = <<>> /\ \A task \in Tasks : tstate[task] \in {"new", "done"}))

(***************************************************************************)
(* SpecPool: every task is executed once.                                  *)
(***************************************************************************)
\* Concurrent::running_tasks() of the instance with this id: its entries in
\* the queue plus its count in d_running_tasks
running_tasks(id) ==
    Cardinality({i \in DOMAIN d_task_queue : d_task_queue[i].id = id})
    + RunningCount(d_running_tasks, id)

\* the entries of the queue that hold the task, the threads that execute it
Entries(task) == {i \in DOMAIN d_task_queue : d_task_queue[i].task = task}
Holders(task) == {t \in Threads : cur[t] = task}

\* a task is in the queue exactly while it is queued, and then once; it is
\* held by exactly one worker while a worker executes it, by the
\* submitting thread while that thread executes it, and by no thread else
OneAtATime ==
    \A task \in Tasks :
       /\ Cardinality(Entries(task)) = (IF tstate[task] = "queued" THEN 1 ELSE 0)
       /\ Cardinality(Holders(task)) = (IF tstate[task] \in {"running", "inline"} THEN 1 ELSE 0)
       /\ tstate[task] = "running" => Holders(task) \subseteq Workers

\* running_tasks() of an instance counts its tasks that are queued or that
\* a worker executes
CountedWhilePending ==
    \A id \in Ids :
       running_tasks(id)
       = Cardinality({task \in Tasks : IdOf(task) = id /\ tstate[task] \in {"queued", "running"}})

\* the steps of a task: submitted once; then queued, taken by a worker and
\* finished, or executed in the submitting thread; never back
TaskSteps ==
    {<<"new", "submitted">>, <<"new", "inline">>, <<"new", "done">>,
     <<"submitted", "queued">>, <<"submitted", "inline">>, <<"submitted", "done">>,
     <<"queued", "running">>, <<"running", "done">>, <<"inline", "done">>}

OneWayOnly ==
    \A task \in Tasks :
       tstate'[task] # tstate[task] => <<tstate[task], tstate'[task]>> \in TaskSteps

\* future.get() returns only when the task of the future has been executed
ReadyAfterExecution ==
    \A t \in Threads :
       (tpc[t] = "get" /\ tpc'[t] # "get") => tstate[SubOf(cur[t])] = "done"

\* no task is dropped: a task handed to background() is executed
NeverDropped ==
    \A task \in Tasks :
       (tstate[task] \in {"submitted", "queued"}) ~> (tstate[task] \in {"running", "inline", "done"})

\* never twice, never by two threads, never both queued and run in the caller
AtMostOnce == [](OneAtATime /\ CountedWhilePending) /\ [][OneWayOnly /\ ReadyAfterExecution]_vars

\* C27: a task passed to background is executed exactly once: it is in the
\* queue at most once and only while it waits for a worker, is executed by
\* one thread at a time, goes once from submitted over queued and running,
\* or over execution in the submitting thread, to done and never back, is
\* counted by running_tasks() of its instance in every state in which it is
\* queued or running, its future is ready only when it is done, and every
\* task that was submitted is executed in the end.
C27_ExactlyOnce == AtMostOnce /\ NeverDropped

\* two tasks are done, one is queued and a worker executes another, all
\* instances with a degree of parallelism above 0
QueuedRunningDone ==
    /\ \A id \in Ids : d_dop[id] > 0
    /\ \E w \in Workers : cur[w] # NoTask /\ tstate[cur[w]] = "running"
    /\ \E task \in Tasks : tstate[task] = "queued"
    /\ Cardinality({task \in Tasks : tstate[task] = "done"}) >= 2

(***************************************************************************)
(* SpecFile: one metadata string per frame.                                *)
(***************************************************************************)
\* Terse::at(pos) of a container t, pos counted from 1: a container of the
\* one frame and its string; a d_metadata[pos] beyond the strings is read
\* out of bounds
at(t, pos) ==
    [EmptyTerse(FALSE) EXCEPT
        !.d_signed = t.d_signed, !.d_block = t.d_block, !.d_size = t.d_size,
        !.d_prolix_bits = t.d_prolix_bits,
        !.d_metadata = <<IF pos \in DOMAIN t.d_metadata THEN t.d_metadata[pos]
                         ELSE Indeterminate>>,
        !.d_terse_frames = <<t.d_terse_frames[pos]>>]

\* the container has as many metadata strings as frames
Aligned(t) == Len(t.d_metadata) = NumberOfFrames(t)

\* C30: in every state the container that was built by insert, push_back,
\* erase and metadata, every container at(i) returns for it, and the
\* container constructed from a stream, with or without a
\* metadata_string_sizes attribute in the header, hold as many metadata
\* strings as frames; with concurrent compression the strings are those
\* of the frames after every insertion and removal.
C30_OneStringPerFrame ==
    /\ Aligned(trs)
    /\ \A pos \in 1..NumberOfFrames(trs) :
          /\ Aligned(at(trs, pos))
          /\ at(trs, pos).d_metadata = <<trs.d_metadata[pos]>>
    /\ parsed.st = "ok" => Aligned(parsed.t)
    /\ Len(d_metadata) = Len(d_terse_frames)
    /\ \A i \in DOMAIN model_list : d_metadata[i] = model_list[i].meta

====
